---- MODULE Spec2Model ----
(***************************************************************************)
(* koneko: a line-numbered BASIC.  The model follows src/src/basic.rs      *)
(* (lexer, parser, program store), src/src/koneko_basic.rs (interpreter,   *)
(* exec_current_line) and src/src/koneko.rs (editor keys, execute_code,    *)
(* print).                                                                 *)
(*                                                                         *)
(* Source text and string values are sequences of one-character strings    *)
(* (the bytes); identifier names are TLA+ strings built by appending those *)
(* characters.  Indices into token vectors and into the program are        *)
(* 0-based as in the source; ByteAt, Tok and LineAt add the 1.             *)
(***************************************************************************)
EXTENDS Integers, Sequences, FiniteSets, TLC

VARIABLES
  basic,         \* BASIC: program, vars, line_no, the three stacks, flags
  screen,        \* Koneko.screen: BASIC_SCREEN or EXEC_SCREEN
  printed_text,  \* Koneko.printed_text
  current_line,  \* Koneko.current_line (the editor's input line)
  cursor,        \* Koneko.cursor (text cursor in current_line)
  line_cursor,   \* Koneko.line_cursor (the stored line Up, Down and Tab select)
  error,         \* Koneko.error (Option<String>): <<>> is None, <<e>> is Some(e)
  files,         \* the file system seen by save/load: name -> bytes
  keys_down,     \* Koneko.keys_down: the names of the keys pressed, in order
  keys_idx,      \* Koneko.keys_idx: how many of them inkey$ has handed out
  pc,            \* "poll": between host-loop calls; "exec": inside execute_code's loop
  panicked,      \* the process has aborted (a Rust panic)
  last           \* the operation that produced this state, for stating the claims

vars == <<basic, screen, printed_text, current_line, cursor, line_cursor, error,
          files, keys_down, keys_idx, pc, panicked, last>>

(***************************************************************************)
(* Lexer: BASIC::lex_line                                                  *)
(***************************************************************************)
DigitChars == <<"0", "1", "2", "3", "4", "5", "6", "7", "8", "9">>

Digits == {DigitChars[i] : i \in 1..10}

\* (str[idx] - b'0')
DigitVal(c) == (CHOOSE i \in 1..10 : DigitChars[i] = c) - 1

LowerChars == {"a", "b", "c", "d", "e", "f", "g", "h", "i", "j", "k", "l", "m",
               "n", "o", "p", "q", "r", "s", "t", "u", "v", "w", "x", "y", "z"}

UpperChars == {"A", "B", "C", "D", "E", "F", "G", "H", "I", "J", "K", "L", "M",
               "N", "O", "P", "Q", "R", "S", "T", "U", "V", "W", "X", "Y", "Z"}

\* b'a'..=b'z' | b'A'..=b'Z' | b'_'
IdentStart == LowerChars \cup UpperChars \cup {"_"}

WhiteSpace == {"\t", " ", "\n", "\r"}

\* Koneko::new: the symbol table handed to BASIC::new
symbols ==
  [c \in {"(", ")", "[", "]", "{", "}", "+", "-", "*", "/", "|", "&", "!", "%", ","} |->
     CASE c = "(" -> "LParen"   [] c = ")" -> "RParen"
       [] c = "[" -> "LSquare"  [] c = "]" -> "RSquare"
       [] c = "{" -> "LCurly"   [] c = "}" -> "RCurly"
       [] c = "+" -> "Add"      [] c = "-" -> "Sub"
       [] c = "*" -> "Mul"      [] c = "/" -> "Div"
       [] c = "|" -> "Pipe"     [] c = "&" -> "Ampersand"
       [] c = "!" -> "Exclamation"
       [] c = "%" -> "Percent"  [] c = "," -> "Comma"]

\* Koneko::new: the keyword table handed to BASIC::new
keywords == [w \in {"to", "step"} |-> IF w = "to" THEN "To" ELSE "Step"]

\* Koneko::new: the names listed in ParseOptions.builtin_commands
listed_commands ==
  {"print", "next", "loop", "while", "sin", "cos", "goto", "gosub", "end", "ret",
   "dot", "time", "cls", "delay", "refresh", "poly", "line", "str", "int", "chr",
   "rnd", "rad", "deg", "save", "load"}

\* The names koneko_basic.rs's interpreter dispatches beyond that list; the
\* constructor that registers them is not among the source files.
dispatched_commands == {"new", "rim", "text", "inkey$"}

\* self.options.builtin_commands
builtin_commands == listed_commands \cup dispatched_commands

\* str[idx] of a byte slice, 0-based
ByteAt(str, idx) == str[idx + 1]

Sym(t) == [t |-> t]

RECURSIVE ScanDigits(_, _, _)
\* while idx < str.len() && str[idx] is a digit { num = num * 10 + digit; idx += 1 }
ScanDigits(str, idx, num) ==
  IF idx < Len(str) /\ ByteAt(str, idx) \in Digits
  THEN ScanDigits(str, idx + 1, num * 10 + DigitVal(ByteAt(str, idx)))
  ELSE [idx |-> idx, num |-> num]

RECURSIVE ScanFraction(_, _, _, _)
\* the fractional digits: dec = dec * 10 + digit; div *= 10
ScanFraction(str, idx, dec, div) ==
  IF idx < Len(str) /\ ByteAt(str, idx) \in Digits
  THEN ScanFraction(str, idx + 1, dec * 10 + DigitVal(ByteAt(str, idx)), div * 10)
  ELSE [idx |-> idx, dec |-> dec, div |-> div]

RECURSIVE ScanString(_, _, _)
\* while idx < str.len() && str[idx] != b'"' { string.push(str[idx]); idx += 1 }
ScanString(str, idx, string) ==
  IF idx < Len(str) /\ ByteAt(str, idx) # "\""
  THEN ScanString(str, idx + 1, Append(string, ByteAt(str, idx)))
  ELSE [idx |-> idx, string |-> string]

RECURSIVE ScanIdent(_, _, _)
\* letters, digits and '_' accumulate into var
ScanIdent(str, idx, var) ==
  IF idx < Len(str) /\ ByteAt(str, idx) \in (IdentStart \cup Digits)
  THEN ScanIdent(str, idx + 1, var \o ByteAt(str, idx))
  ELSE [idx |-> idx, var |-> var]

\* A Float is the exact rational n/d the lexer computes: num + dec / div
FloatTok(num, dec, div) == [t |-> "Float", n |-> num * div + dec, d |-> div]

RECURSIVE LexFrom(_, _, _)
\* the body of lex_line's while loop, from byte idx with the tokens so far
LexFrom(str, idx, tokens) ==
  IF idx >= Len(str) THEN [ok |-> TRUE, tokens |-> tokens]
  ELSE LET c == ByteAt(str, idx) IN
    CASE c \in Digits ->
           LET s == ScanDigits(str, idx, 0) IN
           IF s.idx = Len(str)
           THEN [ok |-> TRUE, tokens |-> Append(tokens, [t |-> "Integer", num |-> s.num])]
           ELSE IF ByteAt(str, s.idx) = "."
           THEN LET f == ScanFraction(str, s.idx + 1, 0, 1) IN
                LexFrom(str, f.idx, Append(tokens, FloatTok(s.num, f.dec, f.div)))
           ELSE LexFrom(str, s.idx, Append(tokens, [t |-> "Integer", num |-> s.num]))
      [] c = "\"" ->
           LET s == ScanString(str, idx + 1, <<>>) IN
           LexFrom(str, s.idx + 1, Append(tokens, [t |-> "String", string |-> s.string]))
      [] c = "<" ->
           IF idx + 1 < Len(str) /\ ByteAt(str, idx + 1) = ">"
           THEN LexFrom(str, idx + 2, Append(tokens, Sym("Neq")))
           ELSE IF idx + 1 < Len(str) /\ ByteAt(str, idx + 1) = "="
           THEN LexFrom(str, idx + 2, Append(tokens, Sym("Lte")))
           ELSE LexFrom(str, idx + 1, Append(tokens, Sym("Lt")))
      [] c = ">" ->
           IF idx + 1 < Len(str) /\ ByteAt(str, idx + 1) = "="
           THEN LexFrom(str, idx + 2, Append(tokens, Sym("Gte")))
           ELSE LexFrom(str, idx + 1, Append(tokens, Sym("Gt")))
      [] c = "=" ->
           IF idx + 1 < Len(str) /\ ByteAt(str, idx + 1) = "="
           THEN LexFrom(str, idx + 2, Append(tokens, Sym("EqEq")))
           ELSE LexFrom(str, idx + 1, Append(tokens, Sym("Eq")))
      [] c \in IdentStart ->
           LET s == ScanIdent(str, idx, "")
               sigil == s.idx < Len(str) /\ ByteAt(str, s.idx) \in {"$", "%"}
               var == IF sigil THEN s.var \o ByteAt(str, s.idx) ELSE s.var
               nxt == IF sigil THEN s.idx + 1 ELSE s.idx
           IN IF var \in DOMAIN keywords
              THEN LexFrom(str, nxt, Append(tokens, Sym(keywords[var])))
              ELSE LexFrom(str, nxt, Append(tokens, [t |-> "Identifier", name |-> var]))
      [] c \in WhiteSpace -> LexFrom(str, idx + 1, tokens)
      [] OTHER ->
           IF c \in DOMAIN symbols
           THEN LexFrom(str, idx + 1, Append(tokens, Sym(symbols[c])))
           ELSE [ok |-> FALSE, err |-> "Unknown token"]

\* BASIC::lex_line
lex_line(str) == LexFrom(str, 0, <<>>)

(***************************************************************************)
(* Parser: BASIC::parse_line, stmt, expr, or, and, cmp, add, mul, atom,    *)
(* bin_op.  A parse result is [st |-> "Ok", idx, node], [st |-> "Err", err] *)
(* or [st |-> "Panic"] (an out-of-range tokens[idx], which aborts).        *)
(***************************************************************************)
\* tokens[idx] of the token vector, 0-based
Tok(tokens, idx) == tokens[idx + 1]

POk(idx, node) == [st |-> "Ok", idx |-> idx, node |-> node]

PErr(err) == [st |-> "Err", err |-> err]

PPanic == [st |-> "Panic"]

NilNode == [k |-> "Nil"]

IntegerNode(num) == [k |-> "Integer", num |-> num]

RECURSIVE stmt(_, _), expr(_, _), or(_, _), and(_, _), cmp(_, _), add(_, _)
RECURSIVE mul(_, _), atom(_, _), bin_op(_, _, _, _), BinOpLoop(_, _, _, _, _)
RECURSIVE Operand(_, _, _), CommandArgs(_, _, _), CallArgs(_, _, _)
RECURSIVE ArrayElements(_, _, _)

\* the function pointer bin_op receives as lhs and rhs (always the same one)
Operand(level, idx, tokens) ==
  CASE level = "and" -> and(idx, tokens)
    [] level = "cmp" -> cmp(idx, tokens)
    [] level = "add" -> add(idx, tokens)
    [] level = "mul" -> mul(idx, tokens)
    [] level = "atom" -> atom(idx, tokens)

\* bin_op's while loop: consume an operator of ops and a right operand
BinOpLoop(idx, tokens, left, level, ops) ==
  IF idx < Len(tokens) /\ Tok(tokens, idx).t \in ops
  THEN LET Rest(r) ==
             IF r.st # "Ok" THEN r
             ELSE BinOpLoop(r.idx, tokens,
                            [k |-> "BinOp", op |-> Tok(tokens, idx).t, left |-> left,
                             right |-> r.node],
                            level, ops)
       IN Rest(Operand(level, idx + 1, tokens))
  ELSE POk(idx, left)

\* BASIC::bin_op
bin_op(idx, tokens, level, ops) ==
  LET Rest(l) == IF l.st # "Ok" THEN l ELSE BinOpLoop(l.idx, tokens, l.node, level, ops)
  IN Rest(Operand(level, idx, tokens))

\* BASIC::or
or(idx, tokens) == bin_op(idx, tokens, "and", {"Pipe"})

\* BASIC::and
and(idx, tokens) == bin_op(idx, tokens, "cmp", {"Ampersand"})

\* BASIC::expr
expr(idx, tokens) == or(idx, tokens)

\* wrap a parsed operand in a Node::UnOp
UnOpNode(op, r) ==
  IF r.st # "Ok" THEN r ELSE POk(r.idx, [k |-> "UnOp", op |-> op, right |-> r.node])

\* BASIC::cmp
cmp(idx, tokens) ==
  IF idx >= Len(tokens) THEN PErr("Expected expression, got end of line!")
  ELSE IF Tok(tokens, idx).t = "Exclamation"
  THEN UnOpNode("Exclamation", cmp(idx + 1, tokens))
  ELSE bin_op(idx, tokens, "add", {"Lt", "Gt", "Lte", "Gte", "EqEq", "Neq"})

\* an add that takes the multiplicative operators at its own level
add_same_level(idx, tokens) ==
  bin_op(idx, tokens, "atom", {"Add", "Sub", "Mul", "Div", "Percent"})

\* BASIC::add
add(idx, tokens) == bin_op(idx, tokens, "mul", {"Add", "Sub"})

\* BASIC::mul
mul(idx, tokens) ==
  IF idx >= Len(tokens) THEN PPanic
  ELSE IF Tok(tokens, idx).t \in {"Add", "Sub"}
  THEN UnOpNode(Tok(tokens, idx).t, mul(idx + 1, tokens))
  ELSE bin_op(idx, tokens, "atom", {"Mul", "Div", "Percent"})

\* stmt's bare command form: while idx < tokens.len() { args.push(expr) }
CommandArgs(idx, tokens, args) ==
  IF idx < Len(tokens)
  THEN LET Rest(r) ==
             IF r.st # "Ok" THEN r ELSE CommandArgs(r.idx, tokens, Append(args, r.node))
       IN Rest(expr(idx, tokens))
  ELSE [st |-> "Ok", idx |-> idx, args |-> args]

\* the index after an optional Token::Comma at idx
SkipComma(idx, tokens) ==
  IF idx < Len(tokens) /\ Tok(tokens, idx).t = "Comma" THEN idx + 1 ELSE idx

\* atom's call form: expressions up to ')' with optional commas, then idx += 1
CallArgs(idx, tokens, args) ==
  IF idx < Len(tokens) /\ Tok(tokens, idx).t # "RParen"
  THEN LET Rest(r) ==
             IF r.st # "Ok" THEN r
             ELSE CallArgs(SkipComma(r.idx, tokens), tokens, Append(args, r.node))
       IN Rest(expr(idx, tokens))
  ELSE [st |-> "Ok", idx |-> idx + 1, args |-> args]

\* atom's array literal: expressions up to '}' with optional commas, then idx += 1
ArrayElements(idx, tokens, array) ==
  IF idx < Len(tokens) /\ Tok(tokens, idx).t # "RCurly"
  THEN LET Rest(r) ==
             IF r.st # "Ok" THEN r
             ELSE ArrayElements(SkipComma(r.idx, tokens), tokens,
                                Append(array, r.node))
       IN Rest(expr(idx, tokens))
  ELSE [st |-> "Ok", idx |-> idx + 1, array |-> array]

\* a parsed expression that must be followed by the token close
Closed(e, tokens, close, message) ==
  IF e.st # "Ok" THEN e
  ELSE IF e.idx >= Len(tokens) THEN PPanic
  ELSE IF Tok(tokens, e.idx).t # close THEN PErr(message)
  ELSE e

\* atom's Identifier arm at '[': name[index] or name[index] = value
AtomIndex(name, i, tokens) ==
  IF i.st # "Ok" THEN i
  ELSE IF i.idx + 1 < Len(tokens) /\ Tok(tokens, i.idx + 1).t = "Eq"
  THEN LET Set(v) ==
             IF v.st # "Ok" THEN v
             ELSE POk(v.idx, [k |-> "IndexSet", name |-> name, index |-> i.node,
                              value |-> v.node])
       IN Set(expr(i.idx + 2, tokens))
  ELSE POk(i.idx + 1, [k |-> "IndexGet", name |-> name, index |-> i.node])

\* atom's Identifier arm, idx already past the name
AtomIdentifier(name, idx, tokens) ==
  IF idx < Len(tokens) /\ Tok(tokens, idx).t = "LParen" /\ name \in builtin_commands
  THEN LET Call(a) ==
             IF a.st # "Ok" THEN a
             ELSE POk(a.idx, [k |-> "BuiltinCommand", name |-> name, args |-> a.args])
       IN Call(CallArgs(idx + 1, tokens, <<>>))
  ELSE IF idx < Len(tokens) /\ Tok(tokens, idx).t = "LSquare"
  THEN AtomIndex(name, Closed(expr(idx + 1, tokens), tokens, "RSquare", "Expected ']'"),
                 tokens)
  ELSE IF idx < Len(tokens) /\ Tok(tokens, idx).t = "Eq"
  THEN LET Set(v) ==
             IF v.st # "Ok" THEN v
             ELSE POk(v.idx, [k |-> "Assign", name |-> name, value |-> v.node])
       IN Set(expr(idx + 1, tokens))
  ELSE POk(idx, [k |-> "VarGet", name |-> name])

\* BASIC::atom
atom(idx, tokens) ==
  IF idx >= Len(tokens) THEN PPanic
  ELSE LET tok == Tok(tokens, idx) IN
    CASE tok.t = "Integer" -> POk(idx + 1, IntegerNode(tok.num))
      [] tok.t = "Float" -> POk(idx + 1, [k |-> "Float", n |-> tok.n, d |-> tok.d])
      [] tok.t = "String" -> POk(idx + 1, [k |-> "String", string |-> tok.string])
      [] tok.t = "Identifier" -> AtomIdentifier(tok.name, idx + 1, tokens)
      [] tok.t = "LSquare" ->
           LET Sized(s) ==
                 IF s.st # "Ok" THEN s
                 ELSE POk(s.idx + 1, [k |-> "EmptyArray", size |-> s.node])
           IN Sized(Closed(expr(idx + 1, tokens), tokens, "RSquare", "Expected ']'"))
      [] tok.t = "LCurly" ->
           LET Built(a) ==
                 IF a.st # "Ok" THEN a
                 ELSE POk(a.idx, [k |-> "Array", elements |-> a.array])
           IN Built(ArrayElements(idx + 1, tokens, <<>>))
      [] tok.t = "LParen" ->
           LET Inner(e) == IF e.st # "Ok" THEN e ELSE POk(e.idx + 1, e.node)
           IN Inner(Closed(expr(idx + 1, tokens), tokens, "RParen", "Expected ')'"))
      [] OTHER -> PErr("Expected atom")

\* stmt's "for" arm after `to`: the end expression and the optional step
StmtForEnd(name, start, end, tokens) ==
  IF end.st # "Ok" THEN end
  ELSE IF end.idx < Len(tokens) /\ Tok(tokens, end.idx).t = "Step"
  THEN LET Stepped(step) ==
             IF step.st # "Ok" THEN step
             ELSE POk(step.idx, [k |-> "For", name |-> name, start |-> start.node,
                                 end |-> end.node, step |-> step.node])
       IN Stepped(expr(end.idx + 1, tokens))
  ELSE POk(end.idx, [k |-> "For", name |-> name, start |-> start.node,
                     end |-> end.node, step |-> IntegerNode(1)])

\* stmt's "for" arm, idx at the token after `for`
StmtFor(idx, tokens) ==
  IF idx >= Len(tokens) THEN PPanic
  ELSE IF Tok(tokens, idx).t # "Identifier" THEN PErr("Expected identifier")
  ELSE IF idx + 1 >= Len(tokens) THEN PPanic
  ELSE IF Tok(tokens, idx + 1).t # "Eq" THEN PErr("Expected '='")
  ELSE LET From(start) ==
             IF start.st # "Ok" THEN start
             ELSE StmtForEnd(Tok(tokens, idx).name, start,
                             expr(start.idx + 1, tokens), tokens)
       IN From(Closed(expr(idx + 2, tokens), tokens, "To", "Expected 'to'"))

\* BASIC::stmt
stmt(idx, tokens) ==
  IF idx < Len(tokens) /\ Tok(tokens, idx).t = "Identifier"
     /\ Tok(tokens, idx).name = "for"
  THEN StmtFor(idx + 1, tokens)
  ELSE IF idx < Len(tokens) /\ Tok(tokens, idx).t = "Identifier"
          /\ Tok(tokens, idx).name \in builtin_commands
  THEN LET Command(a) ==
             IF a.st # "Ok" THEN a
             ELSE POk(a.idx, [k |-> "BuiltinCommand", name |-> Tok(tokens, idx).name,
                              args |-> a.args])
       IN Command(CommandArgs(idx + 1, tokens, <<>>))
  ELSE expr(idx, tokens)

\* static INVALID_LINE_NO: usize = 0
INVALID_LINE_NO == 0

\* the Line parse_line builds from stmt's result r
LineOf(r, line_no, tokens, original) ==
  IF r.st # "Ok" THEN r
  ELSE IF r.idx # Len(tokens)
  THEN IF r.idx < Len(tokens) THEN PErr("Expected end of line") ELSE PPanic
  ELSE [st |-> "Ok",
        line |-> [line_no |-> line_no, node |-> r.node, contents |-> original]]

\* BASIC::parse_line: [st |-> "Ok", line |-> Line] | Err | Panic
parse_line(tokens, original) ==
  IF Len(tokens) = 0 THEN PErr("Empty line!")
  ELSE LET numbered == Tok(tokens, 0).t = "Integer"
           line_no == IF numbered THEN Tok(tokens, 0).num ELSE INVALID_LINE_NO
           begin_idx == IF numbered THEN 1 ELSE 0
       IN IF begin_idx = Len(tokens)
          THEN [st |-> "Ok",
                line |-> [line_no |-> line_no, node |-> NilNode, contents |-> original]]
          ELSE LineOf(stmt(begin_idx, tokens), line_no, tokens, original)

(***************************************************************************)
(* Values: basic.rs Value.  A Float is the exact rational n/d (d > 0, in    *)
(* lowest terms); the inputs of this model stay within the decimals an f64 *)
(* holds exactly.                                                          *)
(***************************************************************************)
NilValue == [t |-> "Nil"]

IntegerValue(num) == [t |-> "Integer", num |-> num]

StringValue(string) == [t |-> "String", string |-> string]

ArrayValue(array) == [t |-> "Array", array |-> array]

Abs(n) == IF n < 0 THEN -n ELSE n

RECURSIVE Gcd(_, _)
Gcd(a, b) == IF b = 0 THEN a ELSE Gcd(b, a % b)

\* the f64 with value n/d
FloatValue(n, d) ==
  LET g == Gcd(Abs(n), Abs(d))
      sgn == IF d < 0 THEN -1 ELSE 1
  IN [t |-> "Float", n |-> sgn * (n \div g), d |-> sgn * (d \div g)]

\* HashMap::new()
EmptyVars == [name \in {} |-> NilValue]

\* HashMap::insert
VarsInsert(vs, name, value) ==
  [n \in DOMAIN vs \cup {name} |-> IF n = name THEN value ELSE vs[n]]

\* HashMap::remove
VarsRemove(vs, name) == [n \in DOMAIN vs \ {name} |-> vs[n]]

RECURSIVE NatToText(_)
\* the decimal digits of a natural number
NatToText(n) ==
  IF n < 10 THEN <<DigitChars[n + 1]>>
  ELSE Append(NatToText(n \div 10), DigitChars[(n % 10) + 1])

\* i64::to_string
IntToText(n) == IF n < 0 THEN <<"-">> \o NatToText(-n) ELSE NatToText(n)

RECURSIVE FractionDigits(_, _)
\* the digits after the point of r/d (r < d), for a terminating decimal
FractionDigits(r, d) ==
  IF r = 0 THEN <<>>
  ELSE <<DigitChars[((r * 10) \div d) + 1]>> \o FractionDigits((r * 10) % d, d)

\* f64::to_string of n/d: "2" for 2.0, "1.5" for 1.5
FloatToText(n, d) ==
  LET a == Abs(n)
      whole == (IF n < 0 THEN <<"-">> ELSE <<>>) \o NatToText(a \div d)
  IN IF a % d = 0 THEN whole ELSE whole \o <<".">> \o FractionDigits(a % d, d)

RECURSIVE to_string(_, _), ArrayToText(_, _, _)
\* the loop of Value::to_string over an array's elements
ArrayToText(array, idx, delimiters) ==
  IF idx >= Len(array) THEN <<>>
  ELSE to_string(array[idx + 1], delimiters)
       \o (IF idx # Len(array) - 1 /\ delimiters THEN <<",", " ">> ELSE <<>>)
       \o ArrayToText(array, idx + 1, delimiters)

\* Value::to_string
to_string(value, delimiters) ==
  CASE value.t = "String" -> value.string
    [] value.t = "Integer" -> IntToText(value.num)
    [] value.t = "Float" -> FloatToText(value.n, value.d)
    [] value.t = "Array" ->
         (IF delimiters THEN <<"{">> ELSE <<>>)
         \o ArrayToText(value.array, 0, delimiters)
         \o (IF delimiters THEN <<"}">> ELSE <<>>)
    [] value.t = "Nil" -> <<"n", "i", "l">>

\* Value::is_truthy
is_truthy(value) ==
  CASE value.t = "String" -> Len(value.string) # 0
    [] value.t = "Integer" -> value.num # 0
    [] value.t = "Float" -> value.n # 0
    [] value.t = "Array" -> Len(value.array) # 0
    [] value.t = "Nil" -> FALSE

\* Value::comparison_value: [ok |-> TRUE, n, d] (the f64 n/d) or [ok |-> FALSE, err]
comparison_value(value) ==
  CASE value.t = "String" -> [ok |-> FALSE, err |-> "Cannot compare string"]
    [] value.t = "Integer" -> [ok |-> TRUE, n |-> value.num, d |-> 1]
    [] value.t = "Float" -> [ok |-> TRUE, n |-> value.n, d |-> value.d]
    [] value.t = "Array" -> [ok |-> FALSE, err |-> "Cannot compare array"]
    [] value.t = "Nil" -> [ok |-> TRUE, n |-> 0, d |-> 1]

RECURSIVE ParseDigits(_, _, _)
\* the digits of str from idx as a number, or -1 when a byte is no digit
ParseDigits(str, idx, num) ==
  IF idx >= Len(str) THEN num
  ELSE IF ByteAt(str, idx) \in Digits
  THEN ParseDigits(str, idx + 1, num * 10 + DigitVal(ByteAt(str, idx)))
  ELSE -1

\* str::parse::<i64>: [ok |-> TRUE, num] or [ok |-> FALSE]
ParseI64(str) ==
  LET signed == Len(str) > 0 /\ str[1] \in {"+", "-"}
      start == IF signed THEN 1 ELSE 0
      mag == IF start >= Len(str) THEN -1 ELSE ParseDigits(str, start, 0)
  IN IF mag < 0 THEN [ok |-> FALSE]
     ELSE [ok |-> TRUE, num |-> IF signed /\ str[1] = "-" THEN -mag ELSE mag]

\* f64 as i64: truncation toward zero
Truncate(n, d) == IF n < 0 THEN -((-n) \div d) ELSE n \div d

\* Value::to_integer: [st |-> "Ok", num] | [st |-> "Err", err] | [st |-> "Panic"]
to_integer(value) ==
  CASE value.t = "String" ->
         LET r == ParseI64(value.string) IN
         IF r.ok THEN [st |-> "Ok", num |-> r.num] ELSE [st |-> "Panic"]
    [] value.t = "Integer" -> [st |-> "Ok", num |-> value.num]
    [] value.t = "Float" -> [st |-> "Ok", num |-> Truncate(value.n, value.d)]
    [] value.t = "Nil" -> [st |-> "Ok", num |-> 0]
    [] value.t = "Array" -> [st |-> "Err", err |-> "Cannot convert array to integer!"]

\* Value::to_float: [st |-> "Ok", n, d] | [st |-> "Err", err] | [st |-> "Panic"]
\* (a String goes through str::parse::<f64>; the integer spellings are modelled)
to_float(value) ==
  CASE value.t = "String" ->
         LET r == ParseI64(value.string) IN
         IF r.ok THEN [st |-> "Ok", n |-> r.num, d |-> 1] ELSE [st |-> "Panic"]
    [] value.t = "Integer" -> [st |-> "Ok", n |-> value.num, d |-> 1]
    [] value.t = "Float" -> [st |-> "Ok", n |-> value.n, d |-> value.d]
    [] value.t = "Nil" -> [st |-> "Ok", n |-> 0, d |-> 1]
    [] value.t = "Array" -> [st |-> "Err", err |-> "Cannot convert array to float!"]

\* an equality that compares two arrays by their lengths only
ValueEq_shallow(a, b) ==
  /\ a.t = b.t
  /\ CASE a.t = "String" -> a.string = b.string
       [] a.t = "Integer" -> a.num = b.num
       [] a.t = "Float" -> a.n = b.n /\ a.d = b.d
       [] a.t = "Array" -> Len(a.array) = Len(b.array)
       [] a.t = "Nil" -> TRUE

RECURSIVE ValueEq(_, _)
\* Value's structural equality (left == right)
ValueEq(a, b) ==
  /\ a.t = b.t
  /\ CASE a.t = "String" -> a.string = b.string
       [] a.t = "Integer" -> a.num = b.num
       [] a.t = "Float" -> a.n = b.n /\ a.d = b.d
       [] a.t = "Array" ->
            /\ Len(a.array) = Len(b.array)
            /\ \A i \in 1..Len(a.array) : ValueEq(a.array[i], b.array[i])
       [] a.t = "Nil" -> TRUE

(***************************************************************************)
(* Program store: BASIC::add_line, remove_line, reset_program_state        *)
(***************************************************************************)
\* program[idx] of the line vector, 0-based
LineAt(program, idx) == program[idx + 1]

\* self.program.iter().position(|x| x.line_no == n): the first index or -1 (None)
position(program, n) ==
  IF \E i \in 1..Len(program) : program[i].line_no = n
  THEN (CHOOSE i \in 1..Len(program) :
          /\ program[i].line_no = n
          /\ \A j \in 1..(i - 1) : program[j].line_no # n) - 1
  ELSE -1

RECURSIVE InsertOrdered(_, _)
\* one step of the stable sort: line goes after every entry that is not greater
InsertOrdered(sorted, line) ==
  IF Len(sorted) = 0 THEN <<line>>
  ELSE IF sorted[Len(sorted)].line_no <= line.line_no THEN Append(sorted, line)
  ELSE Append(InsertOrdered(SubSeq(sorted, 1, Len(sorted) - 1), line),
              sorted[Len(sorted)])

RECURSIVE sort(_)
\* Vec::sort under Line's Ord (by line_no only), stable
sort(program) ==
  IF Len(program) = 0 THEN <<>>
  ELSE InsertOrdered(sort(SubSeq(program, 1, Len(program) - 1)), program[Len(program)])

RECURSIVE remove_line(_, _)
\* BASIC::remove_line: self.program.retain(|x| x.line_no != line_no)
remove_line(program, line_no) ==
  IF Len(program) = 0 THEN <<>>
  ELSE LET rest == remove_line(Tail(program), line_no) IN
       IF Head(program).line_no # line_no THEN <<Head(program)>> \o rest ELSE rest

\* upsert without the sort after the push
upsert_unsorted(program, line) ==
  LET idx == position(program, line.line_no) IN
  IF idx >= 0 THEN [program EXCEPT ![idx + 1] = line]
  ELSE Append(program, line)

\* upsert that pushes and sorts even when the number is already stored
upsert_always_push(program, line) == sort(Append(program, line))

\* add_line's last branch: replace at the found index, else push and sort
upsert(program, line) ==
  LET idx == position(program, line.line_no) IN
  IF idx >= 0 THEN [program EXCEPT ![idx + 1] = line]
  ELSE sort(Append(program, line))

\* add_line that persists an unnumbered line before returning its node
add_line_persisting(program, src) ==
  LET Parsed(parsed) ==
        IF parsed.st = "Panic" THEN [st |-> "Panic", program |-> program]
        ELSE IF parsed.st = "Err"
        THEN [st |-> "Err", program |-> program, err |-> parsed.err]
        ELSE IF parsed.line.line_no = 0
        THEN [st |-> "Ok", program |-> upsert(program, parsed.line), some |-> TRUE,
              node |-> parsed.line.node]
        ELSE IF parsed.line.node.k = "Nil"
        THEN [st |-> "Ok", program |-> remove_line(program, parsed.line.line_no),
              some |-> FALSE, node |-> NilNode]
        ELSE [st |-> "Ok", program |-> upsert(program, parsed.line),
              some |-> FALSE, node |-> NilNode]
      Lexed(lexed) ==
        IF ~lexed.ok THEN [st |-> "Err", program |-> program, err |-> lexed.err]
        ELSE Parsed(parse_line(lexed.tokens, src))
  IN Lexed(lex_line(src))

\* add_line that drops the stored lines when the text is rejected
add_line_clearing(program, src) ==
  LET Parsed(parsed) ==
        IF parsed.st = "Panic" THEN [st |-> "Panic", program |-> program]
        ELSE IF parsed.st = "Err"
        THEN [st |-> "Err", program |-> <<>>, err |-> parsed.err]
        ELSE IF parsed.line.line_no = 0
        THEN [st |-> "Ok", program |-> program, some |-> TRUE,
              node |-> parsed.line.node]
        ELSE IF parsed.line.node.k = "Nil"
        THEN [st |-> "Ok", program |-> remove_line(program, parsed.line.line_no),
              some |-> FALSE, node |-> NilNode]
        ELSE [st |-> "Ok", program |-> upsert(program, parsed.line),
              some |-> FALSE, node |-> NilNode]
      Lexed(lexed) ==
        IF ~lexed.ok THEN [st |-> "Err", program |-> <<>>, err |-> lexed.err]
        ELSE Parsed(parse_line(lexed.tokens, src))
  IN Lexed(lex_line(src))

\* BASIC::add_line on the program vector:
\*   [st |-> "Ok", program, some, node] | [st |-> "Err", program, err] | [st |-> "Panic"]
add_line(program, src) ==
  LET Parsed(parsed) ==
        IF parsed.st = "Panic" THEN [st |-> "Panic", program |-> program]
        ELSE IF parsed.st = "Err"
        THEN [st |-> "Err", program |-> program, err |-> parsed.err]
        ELSE IF parsed.line.line_no = 0
        THEN [st |-> "Ok", program |-> program, some |-> TRUE,
              node |-> parsed.line.node]
        ELSE IF parsed.line.node.k = "Nil"
        THEN [st |-> "Ok", program |-> remove_line(program, parsed.line.line_no),
              some |-> FALSE, node |-> NilNode]
        ELSE [st |-> "Ok", program |-> upsert(program, parsed.line),
              some |-> FALSE, node |-> NilNode]
      Lexed(lexed) ==
        IF ~lexed.ok THEN [st |-> "Err", program |-> program, err |-> lexed.err]
        ELSE Parsed(parse_line(lexed.tokens, src))
  IN Lexed(lex_line(src))

\* a reset that forgets the while stack
reset_keeping_while_stack(b) ==
  [b EXCEPT !.vars = EmptyVars, !.call_stack = <<>>, !.for_stack = <<>>, !.line_no = 0]

\* BASIC::reset_program_state
reset_program_state(b) ==
  [b EXCEPT !.vars = EmptyVars, !.call_stack = <<>>, !.while_stack = <<>>,
            !.for_stack = <<>>, !.line_no = 0]

\* BASIC::new
NewBASIC ==
  [program |-> <<>>, vars |-> EmptyVars, line_no |-> 0, call_stack |-> <<>>,
   while_stack |-> <<>>, for_stack |-> <<>>,
   no_increment_instr_counter |-> FALSE, refresh |-> FALSE]

(***************************************************************************)
(* Interpreter: Koneko::interpret (koneko_basic.rs).  It runs on            *)
(* ko = [basic, printed_text, files, keys_down, keys_idx] and returns      *)
(*   [st |-> "Ok", ko, val] | [st |-> "Err", ko, err] | [st |-> "Panic", ko] *)
(* where ko is the state the call leaves behind (side effects before an    *)
(* error stay).                                                            *)
(***************************************************************************)
IOk(ko, val) == [st |-> "Ok", ko |-> ko, val |-> val]

IErr(ko, err) == [st |-> "Err", ko |-> ko, err |-> err]

IPanic(ko) == [st |-> "Panic", ko |-> ko]

\* pub(crate) const HEIGHT: u32 = 300
HEIGHT == 300

\* pub(crate) const TEXT_HEIGHT: u32 = HEIGHT / 12
TEXT_HEIGHT == HEIGHT \div 12

\* a print that never drops a line
print_unbounded(text_lines, text) == Append(text_lines, text)

\* Koneko::print on printed_text (the drawing is not modelled)
print(text_lines, text) ==
  IF Len(text_lines) + 1 > TEXT_HEIGHT
  THEN Append(Tail(text_lines), text)
  ELSE Append(text_lines, text)

\* i64 `/`: truncates toward zero
TruncDiv(a, b) == IF (a < 0) # (b < 0) THEN -(Abs(a) \div Abs(b)) ELSE Abs(a) \div Abs(b)

\* i64 `%`: the remainder has the dividend's sign
TruncRem(a, b) == a - b * TruncDiv(a, b)

\* arithmetic whose `+` turns a number next to a string into its text
Arith_stringifying(op, left, right) ==
  IF /\ op = "Add" /\ "String" \in {left.t, right.t}
     /\ {left.t, right.t} \subseteq {"Integer", "Float", "String"}
  THEN [st |-> "Ok",
        val |-> StringValue(to_string(left, FALSE) \o to_string(right, FALSE))]
  ELSE IF left.t = "Integer" /\ right.t = "Integer" /\ op = "Add"
  THEN [st |-> "Ok", val |-> IntegerValue(left.num + right.num)]
  ELSE IF left.t = "Integer" /\ right.t = "Integer" /\ op = "Sub"
  THEN [st |-> "Ok", val |-> IntegerValue(left.num - right.num)]
  ELSE IF left.t = "Integer" /\ right.t = "Integer" /\ op = "Mul"
  THEN [st |-> "Ok", val |-> IntegerValue(left.num * right.num)]
  ELSE IF left.t \in {"Integer", "Float"} /\ right.t \in {"Integer", "Float"}
          /\ op = "Add"
  THEN [st |-> "Ok",
        val |-> FloatValue(comparison_value(left).n * comparison_value(right).d
                             + comparison_value(right).n * comparison_value(left).d,
                           comparison_value(left).d * comparison_value(right).d)]
  ELSE [st |-> "Err", err |-> "Cannot compare"]

\* BinOp's Add/Sub/Percent/Mul/Div arms on two values: [st, val] | [st, err] | Panic.
\* Float `/` and `%` are not modelled: no input of the model reaches them.
Arith(op, left, right) ==
  CASE left.t = "Integer" /\ right.t = "Integer" ->
         (CASE op = "Add" -> [st |-> "Ok", val |-> IntegerValue(left.num + right.num)]
            [] op = "Sub" -> [st |-> "Ok", val |-> IntegerValue(left.num - right.num)]
            [] op = "Mul" -> [st |-> "Ok", val |-> IntegerValue(left.num * right.num)]
            [] op = "Div" ->
                 IF right.num = 0 THEN [st |-> "Panic"]
                 ELSE [st |-> "Ok", val |-> IntegerValue(TruncDiv(left.num, right.num))]
            [] op = "Percent" ->
                 IF right.num = 0 THEN [st |-> "Panic"]
                 ELSE [st |-> "Ok", val |-> IntegerValue(TruncRem(left.num, right.num))])
    [] /\ left.t \in {"Integer", "Float"} /\ right.t \in {"Integer", "Float"}
       /\ "Float" \in {left.t, right.t} /\ op \in {"Add", "Sub", "Mul"} ->
         LET l == comparison_value(left)
             r == comparison_value(right)
         IN (CASE op = "Add" ->
                    [st |-> "Ok", val |-> FloatValue(l.n * r.d + r.n * l.d, l.d * r.d)]
               [] op = "Sub" ->
                    [st |-> "Ok", val |-> FloatValue(l.n * r.d - r.n * l.d, l.d * r.d)]
               [] op = "Mul" -> [st |-> "Ok", val |-> FloatValue(l.n * r.n, l.d * r.d)])
    [] left.t = "String" /\ right.t = "String" /\ op = "Add" ->
         [st |-> "Ok", val |-> StringValue(left.string \o right.string)]
    [] ~(left.t \in {"Integer", "Float"} /\ right.t \in {"Integer", "Float"})
       /\ ~(left.t = "String" /\ right.t = "String" /\ op = "Add") ->
         [st |-> "Err", err |-> "Cannot compare"]

\* a < b for the f64s a and b
FLess(a, b) == a.n * b.d < b.n * a.d

\* (a - b).abs() < 0.0000001
FNear(a, b) == Abs(a.n * b.d - b.n * a.d) * 10000000 < a.d * b.d

\* BinOp's Lt/Gt/Gte/Lte arms
Compare(op, left, right) ==
  LET l == comparison_value(left)
      r == comparison_value(right)
  IN IF ~l.ok THEN [st |-> "Err", err |-> l.err]
     ELSE IF ~r.ok THEN [st |-> "Err", err |-> r.err]
     ELSE LET b == CASE op = "Lt" -> FLess(l, r)
                     [] op = "Gt" -> FLess(r, l)
                     [] op = "Gte" -> FLess(r, l) \/ FNear(l, r)
                     [] op = "Lte" -> FLess(l, r) \/ FNear(l, r)
          IN [st |-> "Ok", val |-> IntegerValue(IF b THEN 1 ELSE 0)]

\* the match on op of Node::BinOp, both operands evaluated
BinOpApply(op, left, right) ==
  CASE op \in {"Add", "Sub", "Percent", "Mul", "Div"} -> Arith(op, left, right)
    [] op \in {"Lt", "Gt", "Gte", "Lte"} -> Compare(op, left, right)
    [] op = "EqEq" ->
         [st |-> "Ok", val |-> IntegerValue(IF ValueEq(left, right) THEN 1 ELSE 0)]
    [] op = "Ampersand" ->
         [st |-> "Ok",
          val |-> IntegerValue(IF is_truthy(left) /\ is_truthy(right) THEN 1 ELSE 0)]
    [] op = "Pipe" ->
         [st |-> "Ok",
          val |-> IntegerValue(IF is_truthy(left) \/ is_truthy(right) THEN 1 ELSE 0)]
    [] op = "Neq" -> [st |-> "Err", err |-> "Cannot compare"]

\* f64::signum of n/d: 1.0 for +0.0 and above, -1.0 below
signum(n) == IF n < 0 THEN -1 ELSE 1

RECURSIVE WhileScan(_, _, _)
\* the forward scan of a falsy `while`: the index it stops at, or -1 when it runs
\* off the end of the program (program[line_no] out of range)
WhileScan(program, line_no, depth) ==
  IF line_no >= Len(program) THEN -1
  ELSE LET node == LineAt(program, line_no).node
           cmd == IF node.k = "BuiltinCommand" THEN node.name ELSE ""
       IN IF cmd = "loop" /\ depth = 0 THEN line_no
          ELSE WhileScan(program, line_no + 1,
                         IF cmd = "loop" THEN depth - 1
                         ELSE IF cmd = "while" THEN depth + 1 ELSE depth)

RECURSIVE SplitLines(_, _, _)
\* buffer.split("\n"): the pieces of buffer from idx on, cur being the piece so far
SplitLines(buffer, idx, cur) ==
  IF idx >= Len(buffer) THEN <<cur>>
  ELSE IF ByteAt(buffer, idx) = "\n" THEN <<cur>> \o SplitLines(buffer, idx + 1, <<>>)
  ELSE SplitLines(buffer, idx + 1, Append(cur, ByteAt(buffer, idx)))

RECURSIVE WriteLines_no_newline(_, _)
\* save's loop writing the lines with write! instead of writeln!
WriteLines_no_newline(program, idx) ==
  IF idx >= Len(program) THEN <<>>
  ELSE LineAt(program, idx).contents \o WriteLines_no_newline(program, idx + 1)

RECURSIVE WriteLines(_, _)
\* save's loop: writeln!(file, "{}", line.contents) for every stored line
WriteLines(program, idx) ==
  IF idx >= Len(program) THEN <<>>
  ELSE LineAt(program, idx).contents \o <<"\n">> \o WriteLines(program, idx + 1)

RECURSIVE LoadLines(_, _, _)
\* load's loop: add_line for every non-empty piece, stopping at the first failure
LoadLines(program, pieces, idx) ==
  IF idx >= Len(pieces) THEN [st |-> "Ok", program |-> program]
  ELSE IF Len(pieces[idx + 1]) = 0 THEN LoadLines(program, pieces, idx + 1)
  ELSE LET Rest(r) == IF r.st = "Ok" THEN LoadLines(r.program, pieces, idx + 1) ELSE r
       IN Rest(add_line(program, pieces[idx + 1]))

RECURSIVE interpret(_, _), EvalElements(_, _, _, _), InterpretBuiltin(_, _, _)
RECURSIVE InterpretLoop(_), InterpretLoad(_, _), ForPush(_, _), BinOpEval(_, _)
RECURSIVE IndexSet(_, _), IfBranch(_, _)

\* Node::Array: the elements evaluated left to right
EvalElements(ko, elements, idx, array) ==
  IF idx >= Len(elements) THEN IOk(ko, ArrayValue(array))
  ELSE LET Rest(r) ==
             IF r.st # "Ok" THEN r
             ELSE EvalElements(r.ko, elements, idx + 1, Append(array, r.val))
       IN Rest(interpret(ko, elements[idx + 1]))

\* "next" once the frame is popped and the variable read: step the variable,
\* compare with the end, loop or leave
NextStep(ko, popped, name, frame, value, si, sf) ==
  IF value.t \notin {"Integer", "Float"}
  THEN IErr(popped, "Expected integer or float")
  ELSE IF value.t = "Integer" /\ si.st = "Panic" THEN IPanic(popped)
  ELSE IF value.t = "Integer" /\ si.st = "Err" THEN IErr(popped, si.err)
  ELSE IF sf.st = "Panic" THEN IPanic(popped)
  ELSE IF sf.st = "Err" THEN IErr(popped, sf.err)
  ELSE LET Cmp(stepped, step_sign, v, e) ==
             IF ~e.ok THEN IErr(popped, e.err)
             ELSE IF FLess([n |-> v.n * step_sign, d |-> v.d], e)
             THEN IOk([ko EXCEPT
                         !.basic.vars = VarsInsert(ko.basic.vars, name, stepped),
                         !.basic.line_no = frame.line_no],
                      NilValue)
             ELSE IOk([popped EXCEPT !.basic.vars = VarsRemove(ko.basic.vars, name)],
                      NilValue)
           Stepped(stepped) ==
             Cmp(stepped, signum(sf.n), comparison_value(stepped),
                 comparison_value(frame.end))
       IN Stepped(IF value.t = "Integer"
                  THEN IntegerValue(value.num + si.num)
                  ELSE FloatValue(value.n * sf.d + sf.n * value.d, value.d * sf.d))

\* "next": for_stack.pop(), then NextStep
InterpretNext(ko, args) ==
  IF Len(args) # 1 THEN IErr(ko, "Expected 1 arguments")
  ELSE IF args[1].k # "VarGet" THEN IErr(ko, "Expected variable name")
  ELSE LET name == args[1].name
           b == ko.basic
       IN
    IF Len(b.for_stack) = 0 THEN IErr(ko, "Cannot next; for stack is empty!")
    ELSE LET frame == b.for_stack[Len(b.for_stack)]
             popped == [ko EXCEPT !.basic.for_stack =
                          SubSeq(b.for_stack, 1, Len(b.for_stack) - 1)]
         IN
      IF name \notin DOMAIN b.vars THEN IPanic(popped)
      ELSE NextStep(ko, popped, name, frame, b.vars[name],
                    to_integer(frame.step), to_float(frame.step))

\* "loop" that keeps the while-frame when the condition has become falsy
InterpretLoop_no_pop(ko) ==
  LET b == ko.basic IN
  IF Len(b.while_stack) = 0 THEN IErr(ko, "Cannot loop; while stack is empty!")
  ELSE LET line_no == b.while_stack[Len(b.while_stack)] IN
    IF line_no >= Len(b.program) THEN IPanic(ko)
    ELSE LET node == LineAt(b.program, line_no).node IN
      IF node.k # "BuiltinCommand" THEN IErr(ko, "Expected if statement")
      ELSE IF node.name # "while" \/ Len(node.args) # 1 THEN IPanic(ko)
      ELSE LET Cond(c) ==
                 IF c.st # "Ok" THEN IPanic(c.ko)
                 ELSE IF is_truthy(c.val)
                 THEN IOk([c.ko EXCEPT !.basic.line_no = line_no], NilValue)
                 ELSE IOk(c.ko, NilValue)
           IN Cond(interpret(ko, node.args[1]))

\* "loop": re-evaluate the condition of the `while` on top of while_stack
InterpretLoop(ko) ==
  LET b == ko.basic IN
  IF Len(b.while_stack) = 0 THEN IErr(ko, "Cannot loop; while stack is empty!")
  ELSE LET line_no == b.while_stack[Len(b.while_stack)] IN
    IF line_no >= Len(b.program) THEN IPanic(ko)
    ELSE LET node == LineAt(b.program, line_no).node IN
      IF node.k # "BuiltinCommand" THEN IErr(ko, "Expected if statement")
      ELSE IF node.name # "while" THEN IErr(ko, "Expected while statement")
      ELSE IF Len(node.args) # 1 THEN IErr(ko, "Expected 1 argument")
      ELSE LET Cond(c) ==
                 IF c.st # "Ok" THEN IPanic(c.ko)
                 ELSE IF is_truthy(c.val)
                 THEN IOk([c.ko EXCEPT !.basic.line_no = line_no], NilValue)
                 ELSE IOk([c.ko EXCEPT !.basic.while_stack =
                             SubSeq(c.ko.basic.while_stack, 1,
                                    Len(c.ko.basic.while_stack) - 1)],
                          NilValue)
           IN Cond(interpret(ko, node.args[1]))

\* "load": read the file, clear the program, add_line every non-empty line
InterpretLoad(ko, args) ==
  IF Len(args) # 1 THEN IErr(ko, "Expected 1 argument")
  ELSE LET Again(again) ==
             IF again.st # "Ok" THEN again ELSE IErr(again.ko, "Expected string")
           Loaded(fko, r) ==
             IF r.st = "Ok" THEN IOk([fko EXCEPT !.basic.program = r.program], NilValue)
             ELSE IF r.st = "Err"
             THEN IErr([fko EXCEPT !.basic.program = r.program], r.err)
             ELSE IPanic([fko EXCEPT !.basic.program = r.program])
           Named(f) ==
             IF f.st # "Ok" THEN f
             ELSE IF f.val.t # "String" THEN Again(interpret(f.ko, args[1]))
             ELSE IF f.val.string \notin DOMAIN f.ko.files
             THEN IErr(f.ko, "Could not open file")
             ELSE Loaded(f.ko,
                         LoadLines(<<>>, SplitLines(f.ko.files[f.val.string], 0, <<>>),
                                   0))
       IN Named(interpret(ko, args[1]))

\* an inkey$ that hands out the key at keys_idx without moving past it
Inkey_peek(ko) ==
  IF ko.keys_idx < Len(ko.keys_down)
  THEN IOk(ko, StringValue(ko.keys_down[ko.keys_idx + 1]))
  ELSE IOk(ko, NilValue)

\* "inkey$": the name of keys_down[keys_idx] and keys_idx += 1, or Nil when
\* there is no such key
Inkey(ko) ==
  IF ko.keys_idx < Len(ko.keys_down)
  THEN IOk([ko EXCEPT !.keys_idx = @ + 1],
           StringValue(ko.keys_down[ko.keys_idx + 1]))
  ELSE IOk(ko, NilValue)

\* Self::expect_n_args
expect_n_args(args, n) == Len(args) = n

\* "gosub" that pushes the return frame before it resolves the target
Jump_push_first(name, a) ==
  IF a.st # "Ok" THEN a
  ELSE LET pushed == [a.ko EXCEPT
                        !.basic.call_stack =
                           IF name = "gosub"
                           THEN Append(a.ko.basic.call_stack, a.ko.basic.line_no)
                           ELSE @]
           To(n) ==
             IF n.st = "Panic" THEN IPanic(pushed)
             ELSE IF n.st = "Err" THEN IErr(pushed, n.err)
             ELSE LET line_no == position(pushed.basic.program, n.num) IN
               IF line_no < 0 THEN IErr(pushed, "Could not find line")
               ELSE IOk([pushed EXCEPT !.basic.line_no = line_no,
                                       !.basic.no_increment_instr_counter = TRUE],
                        NilValue)
       IN To(to_integer(a.val))

\* "gosub" and "goto" with the target a evaluated
Jump(name, a) ==
  IF a.st # "Ok" THEN a
  ELSE LET To(n) ==
             IF n.st = "Panic" THEN IPanic(a.ko)
             ELSE IF n.st = "Err" THEN IErr(a.ko, n.err)
             ELSE LET line_no == position(a.ko.basic.program, n.num) IN
               IF line_no < 0 THEN IErr(a.ko, "Could not find line")
               ELSE IOk([a.ko EXCEPT
                           !.basic.call_stack =
                              IF name = "gosub"
                              THEN Append(a.ko.basic.call_stack, a.ko.basic.line_no)
                              ELSE @,
                           !.basic.line_no = line_no,
                           !.basic.no_increment_instr_counter = TRUE],
                        NilValue)
       IN To(to_integer(a.val))

\* "while" with the condition c evaluated
While(c) ==
  IF c.st # "Ok" THEN c
  ELSE IF is_truthy(c.val)
  THEN IOk([c.ko EXCEPT !.basic.while_stack = Append(@, c.ko.basic.line_no)], NilValue)
  ELSE LET Skip(stop) ==
             IF stop < 0 THEN IPanic(c.ko)
             ELSE IOk([c.ko EXCEPT !.basic.line_no = stop], NilValue)
       IN Skip(WhileScan(c.ko.basic.program, c.ko.basic.line_no, 0))

\* "save" with the file name a evaluated
Save(a) ==
  IF a.st # "Ok" THEN a
  ELSE LET Write(filename) ==
             IF Len(filename) = 0 THEN IErr(a.ko, "Could not create file")
             ELSE IOk([a.ko EXCEPT !.files =
                         [f \in DOMAIN a.ko.files \cup {filename} |->
                            IF f = filename THEN WriteLines(a.ko.basic.program, 0)
                            ELSE a.ko.files[f]]],
                      NilValue)
       IN Write(to_string(a.val, FALSE))

\* "ret" that resumes after the oldest call instead of the newest
Ret_oldest_first(ko) ==
  IF Len(ko.basic.call_stack) = 0 THEN IErr(ko, "Cannot return; callstack is empty!")
  ELSE IOk([ko EXCEPT !.basic.line_no = ko.basic.call_stack[1],
                      !.basic.call_stack = Tail(ko.basic.call_stack)],
           NilValue)

\* "ret" that takes an empty call stack for the end of a subroutine-free run
Ret_empty_ok(ko) ==
  IF Len(ko.basic.call_stack) = 0 THEN IOk(ko, NilValue)
  ELSE IOk([ko EXCEPT !.basic.line_no = ko.basic.call_stack[Len(ko.basic.call_stack)],
                      !.basic.call_stack =
                         SubSeq(ko.basic.call_stack, 1, Len(ko.basic.call_stack) - 1)],
           NilValue)

\* "ret": call_stack.pop() becomes the cursor
Ret(ko) ==
  IF Len(ko.basic.call_stack) = 0 THEN IErr(ko, "Cannot return; callstack is empty!")
  ELSE IOk([ko EXCEPT !.basic.line_no = ko.basic.call_stack[Len(ko.basic.call_stack)],
                      !.basic.call_stack =
                         SubSeq(ko.basic.call_stack, 1, Len(ko.basic.call_stack) - 1)],
           NilValue)

\* "end" that returns without moving the cursor
End_in_place(ko) == IOk(ko, NilValue)

\* "end": the cursor becomes the program length
End(ko) == IOk([ko EXCEPT !.basic.line_no = Len(ko.basic.program)], NilValue)

\* "print" with the argument a evaluated
Print1(a) ==
  IF a.st # "Ok" THEN a
  ELSE IOk([a.ko EXCEPT !.printed_text = print(@, to_string(a.val, TRUE))], NilValue)

\* the match on name of Node::BuiltinCommand.  The drawing, clock, random and
\* conversion commands are not modelled: no input of the model names them.
InterpretBuiltin(ko, name, args) ==
  LET b == ko.basic IN
  CASE name = "refresh" ->
         IF ~expect_n_args(args, 0) THEN IErr(ko, "Expected 0 arguments")
         ELSE IOk([ko EXCEPT !.basic.refresh = TRUE], NilValue)
    [] name \in {"gosub", "goto"} ->
         IF ~expect_n_args(args, 1) THEN IErr(ko, "Expected 1 arguments")
         ELSE Jump(name, interpret(ko, args[1]))
    [] name = "end" ->
         IF ~expect_n_args(args, 0) THEN IErr(ko, "Expected 0 arguments")
         ELSE End(ko)
    [] name = "print" ->
         IF ~expect_n_args(args, 1) THEN IErr(ko, "Expected 1 arguments")
         ELSE Print1(interpret(ko, args[1]))
    [] name = "next" -> InterpretNext(ko, args)
    [] name = "loop" ->
         IF ~expect_n_args(args, 0) THEN IErr(ko, "Expected 0 arguments")
         ELSE InterpretLoop(ko)
    [] name = "while" ->
         IF ~expect_n_args(args, 1) THEN IErr(ko, "Expected 1 arguments")
         ELSE While(interpret(ko, args[1]))
    [] name = "ret" ->
         IF ~expect_n_args(args, 0) THEN IErr(ko, "Expected 0 arguments")
         ELSE Ret(ko)
    [] name = "save" ->
         IF ~expect_n_args(args, 1) THEN IErr(ko, "Expected 1 arguments")
         ELSE Save(interpret(ko, args[1]))
    [] name = "load" -> InterpretLoad(ko, args)
    [] name = "new" ->
         IF ~expect_n_args(args, 0) THEN IErr(ko, "Expected 0 arguments")
         ELSE IOk([ko EXCEPT !.basic =
                     reset_program_state([b EXCEPT !.program = <<>>])],
                  NilValue)
    [] name = "inkey$" ->
         IF ~expect_n_args(args, 0) THEN IErr(ko, "Expected 0 arguments")
         ELSE Inkey(ko)
    [] name \notin builtin_commands -> IErr(ko, "Unknown builtin command")

\* a for whose frame holds the index after the for line
ForPush_next_index(ko, node) ==
  LET Push(start, end, step) ==
        IF step.st # "Ok" THEN step
        ELSE IOk([step.ko EXCEPT
                    !.basic.vars = VarsInsert(@, node.name, start.val),
                    !.basic.for_stack =
                       Append(@, [line_no |-> step.ko.basic.line_no + 1,
                                  end |-> end.val, step |-> step.val])],
                 NilValue)
      WithEnd(start, end) ==
        IF end.st # "Ok" THEN end ELSE Push(start, end, interpret(end.ko, node.step))
      WithStart(start) ==
        IF start.st # "Ok" THEN start
        ELSE WithEnd(start, interpret(start.ko, node.end))
  IN WithStart(interpret(ko, node.start))

\* a for that compares start with end and, when start is not below end,
\* binds and pushes nothing and sends the cursor to the last line
ForPush_comparing(ko, node) ==
  LET Push(start, end, step) ==
        IF step.st # "Ok" THEN step
        ELSE IF start.val.t = "Integer" /\ end.val.t = "Integer"
                /\ start.val.num >= end.val.num
        THEN IOk([step.ko EXCEPT
                    !.basic.line_no = Len(step.ko.basic.program) - 1],
                 NilValue)
        ELSE IOk([step.ko EXCEPT
                    !.basic.vars = VarsInsert(@, node.name, start.val),
                    !.basic.for_stack =
                       Append(@, [line_no |-> step.ko.basic.line_no,
                                  end |-> end.val, step |-> step.val])],
                 NilValue)
      WithEnd(start, end) ==
        IF end.st # "Ok" THEN end ELSE Push(start, end, interpret(end.ko, node.step))
      WithStart(start) ==
        IF start.st # "Ok" THEN start
        ELSE WithEnd(start, interpret(start.ko, node.end))
  IN WithStart(interpret(ko, node.start))

\* Node::For with start, end and step evaluated in that order
ForPush(ko, node) ==
  LET Push(start, end, step) ==
        IF step.st # "Ok" THEN step
        ELSE IOk([step.ko EXCEPT
                    !.basic.vars = VarsInsert(@, node.name, start.val),
                    !.basic.for_stack =
                       Append(@, [line_no |-> step.ko.basic.line_no,
                                  end |-> end.val, step |-> step.val])],
                 NilValue)
      WithEnd(start, end) ==
        IF end.st # "Ok" THEN end ELSE Push(start, end, interpret(end.ko, node.step))
      WithStart(start) ==
        IF start.st # "Ok" THEN start
        ELSE WithEnd(start, interpret(start.ko, node.end))
  IN WithStart(interpret(ko, node.start))

\* a BinOp that, when the operator fails, returns the state it started from
BinOpEval_atomic(ko, node) ==
  LET Apply(rko, v) ==
        IF v.st = "Ok" THEN IOk(rko, v.val)
        ELSE IF v.st = "Err" THEN IErr(ko, v.err)
        ELSE IPanic(ko)
      WithRight(l, r) ==
        IF r.st # "Ok" THEN r ELSE Apply(r.ko, BinOpApply(node.op, l.val, r.val))
      WithLeft(l) ==
        IF l.st # "Ok" THEN l ELSE WithRight(l, interpret(l.ko, node.right))
  IN WithLeft(interpret(ko, node.left))

\* Node::BinOp: left, then right, then the operator
BinOpEval(ko, node) ==
  LET Apply(rko, v) ==
        IF v.st = "Ok" THEN IOk(rko, v.val)
        ELSE IF v.st = "Err" THEN IErr(rko, v.err)
        ELSE IPanic(rko)
      WithRight(l, r) ==
        IF r.st # "Ok" THEN r ELSE Apply(r.ko, BinOpApply(node.op, l.val, r.val))
      WithLeft(l) ==
        IF l.st # "Ok" THEN l ELSE WithRight(l, interpret(l.ko, node.right))
  IN WithLeft(interpret(ko, node.left))

\* Node::UnOp with the operand r evaluated
UnOpApply(op, r) ==
  IF r.st # "Ok" THEN r
  ELSE CASE op = "Exclamation" ->
              IOk(r.ko, IntegerValue(IF is_truthy(r.val) THEN 0 ELSE 1))
         [] op = "Sub" ->
              IF r.val.t = "Integer" THEN IOk(r.ko, IntegerValue(-r.val.num))
              ELSE IF r.val.t = "Float" THEN IOk(r.ko, FloatValue(-r.val.n, r.val.d))
              ELSE IErr(r.ko, "Cannot negate")
         [] op = "Add" ->
              IF r.val.t \in {"Integer", "Float"} THEN IOk(r.ko, r.val)
              ELSE IErr(r.ko, "Cannot negate")

\* Node::IndexGet with the index i evaluated
IndexGet(name, i) ==
  IF i.st # "Ok" THEN i
  ELSE IF i.val.t # "Integer" THEN IErr(i.ko, "Expected integer")
  ELSE IF ~(name \in DOMAIN i.ko.basic.vars /\ i.ko.basic.vars[name].t = "Array")
  THEN IErr(i.ko, "Expected array")
  ELSE LET array == i.ko.basic.vars[name].array IN
       IF i.val.num < 0 \/ i.val.num >= Len(array)
       THEN IErr(i.ko, "Index out of bounds")
       ELSE IOk(i.ko, array[i.val.num + 1])

\* an IndexSet that counts a negative index back from the end of the array
IndexSet_wrapping(ko, node) ==
  LET Store(n, v) ==
        IF v.st # "Ok" THEN v
        ELSE IF ~(node.name \in DOMAIN v.ko.basic.vars
                  /\ v.ko.basic.vars[node.name].t = "Array")
        THEN IErr(v.ko, "Expected array")
        ELSE LET array == v.ko.basic.vars[node.name].array
                 at == IF n.num < 0 THEN n.num + Len(array) ELSE n.num
             IN IF at < 0 \/ at >= Len(array)
                THEN IErr(v.ko, "Index out of bounds")
                ELSE IOk([v.ko EXCEPT !.basic.vars[node.name] =
                            ArrayValue([array EXCEPT ![at + 1] = v.val])],
                         NilValue)
      At(iko, n) ==
        IF n.st = "Panic" THEN IPanic(iko)
        ELSE IF n.st = "Err" THEN IErr(iko, n.err)
        ELSE Store(n, interpret(iko, node.value))
      WithIndex(i) == IF i.st # "Ok" THEN i ELSE At(i.ko, to_integer(i.val))
  IN WithIndex(interpret(ko, node.index))

\* Node::IndexSet: the index, its integer, then the value
IndexSet(ko, node) ==
  LET Store(n, v) ==
        IF v.st # "Ok" THEN v
        ELSE IF ~(node.name \in DOMAIN v.ko.basic.vars
                  /\ v.ko.basic.vars[node.name].t = "Array")
        THEN IErr(v.ko, "Expected array")
        ELSE LET array == v.ko.basic.vars[node.name].array IN
             IF n.num < 0 \/ n.num >= Len(array)
             THEN IErr(v.ko, "Index out of bounds")
             ELSE IOk([v.ko EXCEPT !.basic.vars[node.name] =
                         ArrayValue([array EXCEPT ![n.num + 1] = v.val])],
                      NilValue)
      At(iko, n) ==
        IF n.st = "Panic" THEN IPanic(iko)
        ELSE IF n.st = "Err" THEN IErr(iko, n.err)
        ELSE Store(n, interpret(iko, node.value))
      WithIndex(i) == IF i.st # "Ok" THEN i ELSE At(i.ko, to_integer(i.val))
  IN WithIndex(interpret(ko, node.index))

\* Node::EmptyArray with the size z evaluated
EmptyArray(z) ==
  IF z.st # "Ok" THEN z
  ELSE LET Sized(n) ==
             IF n.st = "Panic" THEN IPanic(z.ko)
             ELSE IF n.st = "Err" THEN IErr(z.ko, n.err)
             ELSE IF n.num < 0 THEN IPanic(z.ko)
             ELSE IOk(z.ko, ArrayValue([j \in 1..n.num |-> NilValue]))
       IN Sized(to_integer(z.val))

\* Node::Assign with the value v evaluated
Assign(name, v) ==
  IF v.st # "Ok" THEN v
  ELSE IOk([v.ko EXCEPT !.basic.vars = VarsInsert(@, name, v.val)], v.val)

\* Node::If with the condition c evaluated
IfBranch(node, c) ==
  IF c.st # "Ok" THEN c
  ELSE IF is_truthy(c.val) THEN interpret(c.ko, node.then)
  ELSE interpret(c.ko, node.else_)

\* Koneko::interpret
interpret(ko, node) ==
  CASE node.k = "Integer" -> IOk(ko, IntegerValue(node.num))
    [] node.k = "Float" -> IOk(ko, FloatValue(node.n, node.d))
    [] node.k = "String" -> IOk(ko, StringValue(node.string))
    [] node.k = "VarGet" ->
         IF node.name \in DOMAIN ko.basic.vars THEN IOk(ko, ko.basic.vars[node.name])
         ELSE IErr(ko, "Variable not found!")
    [] node.k = "Assign" -> Assign(node.name, interpret(ko, node.value))
    [] node.k = "For" ->
         IF node.name \in DOMAIN ko.basic.vars THEN IErr(ko, "Variable already exists!")
         ELSE ForPush(ko, node)
    [] node.k = "If" -> IfBranch(node, interpret(ko, node.cond))
    [] node.k = "BinOp" -> BinOpEval(ko, node)
    [] node.k = "UnOp" -> UnOpApply(node.op, interpret(ko, node.right))
    [] node.k = "BuiltinCommand" -> InterpretBuiltin(ko, node.name, node.args)
    [] node.k = "End" -> IOk([ko EXCEPT !.basic.line_no = Len(ko.basic.program)], NilValue)
    [] node.k = "Nil" -> IOk(ko, NilValue)
    [] node.k = "Array" -> EvalElements(ko, node.elements, 0, <<>>)
    [] node.k = "IndexGet" -> IndexGet(node.name, interpret(ko, node.index))
    [] node.k = "IndexSet" -> IndexSet(ko, node)
    [] node.k = "EmptyArray" -> EmptyArray(interpret(ko, node.size))

(***************************************************************************)
(* The host: Koneko's editor keys and execute_code (koneko.rs), and the    *)
(* main loop of run_koneko (main.rs), which polls the events and then      *)
(* calls execute_code once per frame.                                      *)
(***************************************************************************)
\* pub(crate) const BASIC_SCREEN: u32 = 0
BASIC_SCREEN == 0

\* pub(crate) const EXEC_SCREEN: u32 = 1
EXEC_SCREEN == 1

\* the part of the state interpret works on
Ko ==
  [basic |-> basic, printed_text |-> printed_text, files |-> files,
   keys_down |-> keys_down, keys_idx |-> keys_idx]

\* the cursor and stacks of a BASIC, as the claims compare them
RunState(b) ==
  [line_no |-> b.line_no, for_stack |-> b.for_stack, while_stack |-> b.while_stack,
   call_stack |-> b.call_stack, vars |-> b.vars]

\* String::insert_str(cursor, text)
insert_str(line, at, text) ==
  SubSeq(line, 1, at) \o text \o SubSeq(line, at + 1, Len(line))

\* Koneko::new
Init ==
  /\ basic = NewBASIC
  /\ screen = BASIC_SCREEN
  /\ printed_text = <<>>
  /\ current_line = <<>>
  /\ cursor = 0
  /\ line_cursor = 0
  /\ error = <<>>
  /\ files = [f \in {} |-> <<>>]
  /\ keys_down = <<>>
  /\ keys_idx = 0
  /\ pc = "poll"
  /\ panicked = FALSE
  /\ last = [op |-> "init"]

\* the bytes 10xxxxxx of UTF-8, which continue a character; of those the
\* sessions type only the second byte of e-acute (C3 A9)
ContinuationBytes == {"A9"}

\* str::is_char_boundary on the bytes of line
is_char_boundary(line, idx) ==
  \/ idx = 0
  \/ idx = Len(line)
  \/ idx < Len(line) /\ ByteAt(line, idx) \notin ContinuationBytes

RECURSIVE CharEnd(_, _)
\* the byte index after the character that starts at idx - 1: idx moved over
\* the continuation bytes
CharEnd(line, idx) ==
  IF idx < Len(line) /\ ByteAt(line, idx) \in ContinuationBytes
  THEN CharEnd(line, idx + 1)
  ELSE idx

\* String::remove(idx) for idx < len: the line without the character at idx;
\* a panic when idx is not on a character boundary
remove(line, idx) ==
  IF ~is_char_boundary(line, idx) THEN [ok |-> FALSE]
  ELSE [ok |-> TRUE,
        line |-> SubSeq(line, 1, idx)
                   \o SubSeq(line, CharEnd(line, idx + 1) + 1, Len(line))]

\* Koneko::on_text_input in the editor: insert_str at the cursor, which panics
\* when the cursor is not on a character boundary; cursor += text.len()
on_text_input(text) ==
  /\ ~panicked /\ pc = "poll" /\ screen = BASIC_SCREEN
  /\ IF is_char_boundary(current_line, cursor)
     THEN /\ current_line' = insert_str(current_line, cursor, text)
          /\ cursor' = cursor + Len(text)
          /\ panicked' = panicked
     ELSE /\ panicked' = TRUE
          /\ UNCHANGED <<current_line, cursor>>
  /\ last' = [op |-> "text_input"]
  /\ UNCHANGED <<line_cursor, basic, screen, printed_text, error, files, keys_down,
                 keys_idx, pc>>

\* Koneko::on_text_input, with the event's text drawn from menu; the sessions
\* type a whole line at a time, onto an empty input line
OnTextInput(menu) ==
  \E text \in menu :
    /\ current_line = <<>>
    /\ on_text_input(text)

\* a Return handler that resets the run state whenever the store is edited
OnKeyReturn_resetting ==
  /\ ~panicked /\ pc = "poll" /\ screen = BASIC_SCREEN
  /\ LET Done(res, run) ==
           /\ panicked' = (res.st = "Panic" \/ run.st # "Ok")
           /\ basic' = IF res.st = "Panic" THEN basic
                        ELSE IF res.st = "Ok" /\ ~res.some
                        THEN reset_program_state(run.ko.basic)
                        ELSE run.ko.basic
           /\ files' = IF res.st = "Panic" THEN files ELSE run.ko.files
           /\ keys_down' = keys_down
           /\ keys_idx' = IF res.st = "Panic" THEN keys_idx ELSE run.ko.keys_idx
           /\ error' = IF res.st = "Err" THEN <<res.err>>
                       ELSE IF res.st = "Ok" /\ ~res.some THEN <<>> ELSE error
           /\ current_line' = IF res.st = "Ok" /\ ~res.some THEN <<>>
                              ELSE current_line
           /\ cursor' = 0
           /\ printed_text' = <<>>
           /\ last' = [op |-> "add_line", src |-> current_line, st |-> res.st,
                       some |-> res.st = "Ok" /\ res.some,
                       node |-> IF res.st = "Ok" /\ res.some THEN res.node
                                ELSE NilNode,
                       run |-> run.st, pre_program |-> basic.program,
                       stored |-> res.program]
         Added(res) ==
           Done(res,
                IF res.st = "Ok" /\ res.some
                THEN interpret([Ko EXCEPT !.basic.program = res.program], res.node)
                ELSE IOk([Ko EXCEPT !.basic.program = res.program], NilValue))
     IN Added(add_line(basic.program, current_line))
  /\ UNCHANGED <<line_cursor, screen, pc>>

\* Koneko::on_key, Keycode::Return in the editor: add_line, then the immediate
\* node is interpreted and unwrapped; cursor = 0; redraw_screen
OnKeyReturn ==
  /\ ~panicked /\ pc = "poll" /\ screen = BASIC_SCREEN
  /\ LET Done(res, run) ==
           /\ panicked' = (res.st = "Panic" \/ run.st # "Ok")
           /\ basic' = IF res.st = "Panic" THEN basic ELSE run.ko.basic
           /\ files' = IF res.st = "Panic" THEN files ELSE run.ko.files
           /\ keys_down' = keys_down
           /\ keys_idx' = IF res.st = "Panic" THEN keys_idx ELSE run.ko.keys_idx
           /\ error' = IF res.st = "Err" THEN <<res.err>>
                       ELSE IF res.st = "Ok" /\ ~res.some THEN <<>> ELSE error
           /\ current_line' = IF res.st = "Ok" /\ ~res.some THEN <<>>
                              ELSE current_line
           /\ cursor' = 0
           /\ printed_text' = <<>>
           /\ last' = [op |-> "add_line", src |-> current_line, st |-> res.st,
                       some |-> res.st = "Ok" /\ res.some,
                       node |-> IF res.st = "Ok" /\ res.some THEN res.node
                                ELSE NilNode,
                       run |-> run.st, pre_program |-> basic.program,
                       stored |-> res.program]
         Added(res) ==
           Done(res,
                IF res.st = "Ok" /\ res.some
                THEN interpret([Ko EXCEPT !.basic.program = res.program], res.node)
                ELSE IOk([Ko EXCEPT !.basic.program = res.program], NilValue))
     IN Added(add_line(basic.program, current_line))
  /\ UNCHANGED <<line_cursor, screen, pc>>

\* Koneko::on_key, Keycode::End in the editor
OnKeyEnd ==
  /\ ~panicked /\ pc = "poll" /\ screen = BASIC_SCREEN
  /\ cursor' = Len(current_line)
  /\ last' = [op |-> "end_key"]
  /\ UNCHANGED <<line_cursor, basic, screen, printed_text, current_line, error, files,
               keys_down, keys_idx, pc, panicked>>

\* Koneko::on_key, Keycode::Backspace in the editor: remove the character
\* before the cursor
OnKeyBackspace ==
  /\ ~panicked /\ pc = "poll" /\ screen = BASIC_SCREEN
  /\ cursor > 0
  /\ LET Removed(r) ==
           IF r.ok
           THEN /\ current_line' = r.line
                /\ cursor' = cursor - 1
                /\ panicked' = panicked
           ELSE /\ panicked' = TRUE
                /\ UNCHANGED <<current_line, cursor>>
     IN Removed(remove(current_line, cursor - 1))
  /\ last' = [op |-> "backspace"]
  /\ UNCHANGED <<line_cursor, basic, screen, printed_text, error, files, keys_down,
                 keys_idx, pc>>

\* a Ctrl+Tab that switches screens without resetting the run state
OnKeyCtrlTab_no_reset ==
  /\ ~panicked /\ pc = "poll"
  /\ screen' = (screen + 1) % 2
  /\ printed_text' = <<>>
  /\ cursor' = IF screen' = BASIC_SCREEN THEN 0 ELSE cursor
  /\ basic' = basic
  /\ last' = [op |-> "ctrl_tab", pre |-> RunState(basic), pre_program |-> basic.program]
  /\ UNCHANGED <<line_cursor, current_line, error, files, keys_down, keys_idx, pc, panicked>>

\* Koneko::on_key, Keycode::Tab with Ctrl: switch screens; redraw_screen clears
\* printed_text and, entering the exec screen, calls reset_program_state
OnKeyCtrlTab ==
  /\ ~panicked /\ pc = "poll"
  /\ screen' = (screen + 1) % 2
  /\ printed_text' = <<>>
  /\ cursor' = IF screen' = BASIC_SCREEN THEN 0 ELSE cursor
  /\ basic' = IF screen' = EXEC_SCREEN THEN reset_program_state(basic) ELSE basic
  /\ last' = [op |-> "ctrl_tab", pre |-> RunState(basic), pre_program |-> basic.program]
  /\ UNCHANGED <<line_cursor, current_line, error, files, keys_down, keys_idx, pc, panicked>>

\* Koneko::exec_current_line on ko: interpret the line at the cursor, advance the
\* cursor unless no_increment_instr_counter is set, clear that flag
exec_current_line(ko) ==
  IF ko.basic.line_no >= Len(ko.basic.program) THEN IErr(ko, "Program buffer empty!")
  ELSE LET Advance(res) ==
             IF res.st = "Panic" THEN res
             ELSE [res EXCEPT
                     !.ko.basic.line_no =
                        IF res.ko.basic.no_increment_instr_counter THEN @ ELSE @ + 1,
                     !.ko.basic.no_increment_instr_counter = FALSE]
       IN Advance(interpret(ko, LineAt(ko.basic.program, ko.basic.line_no).node))

\* one turn of execute_code's while loop on the exec screen; an Err leaves
\* execute_code at once and run_koneko prints it
ExecStep ==
  /\ ~panicked /\ screen = EXEC_SCREEN
  /\ ~basic.refresh /\ basic.line_no < Len(basic.program)
  /\ LET line == LineAt(basic.program, basic.line_no)
         Done(res) ==
           /\ panicked' = (res.st = "Panic")
           /\ basic' = res.ko.basic
           /\ files' = res.ko.files
           /\ keys_down' = keys_down
           /\ keys_idx' = res.ko.keys_idx
           /\ printed_text' = IF res.st = "Err"
                              THEN print(res.ko.printed_text, <<"Error: ", res.err>>)
                              ELSE res.ko.printed_text
           /\ pc' = IF res.st = "Ok" THEN "exec" ELSE "poll"
           /\ last' = [op |-> "step", idx |-> basic.line_no, node |-> line.node,
                       st |-> res.st,
                       left_at |-> interpret(Ko, line.node).ko.basic.line_no,
                       stale |-> basic.no_increment_instr_counter,
                       pre |-> RunState(basic)]
     IN Done(exec_current_line(Ko))
  /\ UNCHANGED <<line_cursor, screen, current_line, cursor, error>>

\* execute_code leaves its loop (refresh requested or cursor at the end) and
\* clears the refresh flag
ExecuteCodeReturn ==
  /\ ~panicked /\ screen = EXEC_SCREEN
  /\ basic.refresh \/ basic.line_no >= Len(basic.program)
  /\ basic' = [basic EXCEPT !.refresh = FALSE]
  /\ pc' = "poll"
  /\ last' = [op |-> "batch_end"]
  /\ UNCHANGED <<line_cursor, screen, printed_text, current_line, cursor, error, files,
               keys_down, keys_idx, panicked>>

(***************************************************************************)
(* The lines the sessions type.                                            *)
(***************************************************************************)
\* 1 a
T_1A == <<"1", " ", "a">>

\* 1 b
T_1B == <<"1", " ", "b">>

\* 2 a
T_2A == <<"2", " ", "a">>

\* 2
T_Bare2 == <<"2">>

\* 0
T_Bare0 == <<"0">>

\* print 1
T_Print1 == <<"p", "r", "i", "n", "t", " ", "1">>

\* 1 #
T_LexError == <<"1", " ", "#">>

\* 1 )
T_ParseError == <<"1", " ", ")">>

\* save "a"
T_Save == <<"s", "a", "v", "e", " ", "\"", "a", "\"">>

\* load "a"
T_Load == <<"l", "o", "a", "d", " ", "\"", "a", "\"">>

\* new
T_New == <<"n", "e", "w">>

\* the editing session: numbered lines typed in any order, a replacement, bare
\* numbers, an immediate line, rejected lines, save, load and new
EditTexts ==
  {T_1A, T_1B, T_2A, T_Bare2, T_Bare0, T_Print1, T_LexError, T_ParseError,
   T_Save, T_Load, T_New}

Next ==
  \/ OnTextInput(EditTexts)
  \/ OnKeyReturn
  \/ OnKeyEnd
  \/ OnKeyBackspace
  \/ OnKeyCtrlTab
  \/ ExecStep
  \/ ExecuteCodeReturn

Spec == Init /\ [][Next]_vars

(***************************************************************************)
(* A session that enters for/next programs and runs them.                  *)
(***************************************************************************)
\* 1 for i=1 to 5
T_For15 == <<"1", " ", "f", "o", "r", " ", "i", "=", "1", " ", "t", "o", " ", "5">>

\* 1 for i=5 to 1 step -1
T_For51 == <<"1", " ", "f", "o", "r", " ", "i", "=", "5", " ", "t", "o", " ", "1", " ", "s", "t", "e", "p", " ", "-", "1">>

\* 2 print i
T_PrintI == <<"2", " ", "p", "r", "i", "n", "t", " ", "i">>

\* 3 next i
T_NextI == <<"3", " ", "n", "e", "x", "t", " ", "i">>

\* 4 print 7
T_Print7 == <<"4", " ", "p", "r", "i", "n", "t", " ", "7">>

ForTexts == {T_For15, T_For51, T_PrintI, T_NextI, T_Print7}

NextFor ==
  \/ OnTextInput(ForTexts)
  \/ OnKeyReturn
  \/ OnKeyCtrlTab
  \/ ExecStep
  \/ ExecuteCodeReturn

SpecFor == Init /\ [][NextFor]_vars

(***************************************************************************)
(* A session that enters gosub/ret programs, nested two deep, and runs     *)
(* them.                                                                   *)
(***************************************************************************)
\* 1 gosub 4
T_Gosub4 == <<"1", " ", "g", "o", "s", "u", "b", " ", "4">>

\* 2 end
T_End2 == <<"2", " ", "e", "n", "d">>

\* 4 gosub 6
T_Gosub6 == <<"4", " ", "g", "o", "s", "u", "b", " ", "6">>

\* 5 ret
T_Ret5 == <<"5", " ", "r", "e", "t">>

\* 6 ret
T_Ret6 == <<"6", " ", "r", "e", "t">>

CallTexts == {T_Gosub4, T_End2, T_Gosub6, T_Ret5, T_Ret6}

NextCall ==
  \/ OnTextInput(CallTexts)
  \/ OnKeyReturn
  \/ OnKeyCtrlTab
  \/ ExecStep
  \/ ExecuteCodeReturn

SpecCall == Init /\ [][NextCall]_vars

(***************************************************************************)
(* A session that stores lines, some of which fail when run, enters an     *)
(* immediate goto and runs the program.                                    *)
(***************************************************************************)
\* 1 print 1
T_1Print1 == <<"1", " ", "p", "r", "i", "n", "t", " ", "1">>

\* 2 print x
T_2PrintX == <<"2", " ", "p", "r", "i", "n", "t", " ", "x">>

\* 3 next i
T_3NextI == <<"3", " ", "n", "e", "x", "t", " ", "i">>

\* goto 1
T_Goto1 == <<"g", "o", "t", "o", " ", "1">>

StepTexts == {T_1Print1, T_2PrintX, T_3NextI, T_Goto1}

NextStepping ==
  \/ OnTextInput(StepTexts)
  \/ OnKeyReturn
  \/ OnKeyCtrlTab
  \/ ExecStep
  \/ ExecuteCodeReturn

SpecStep == Init /\ [][NextStepping]_vars

(***************************************************************************)
(* Properties of the program store.  last holds the last handler's inputs  *)
(* and the store before it (pre_program) and right after add_line (stored).*)
(***************************************************************************)
\* what lex_line and parse_line make of src: Ok with the Line, Err or Panic
Entered(src) ==
  LET Lexed(lexed) ==
        IF ~lexed.ok THEN PErr(lexed.err) ELSE parse_line(lexed.tokens, src)
  IN Lexed(lex_line(src))

\* src is a line number and nothing else
IsBareNumber(src) ==
  LET Lexed(lexed) ==
        lexed.ok /\ Len(lexed.tokens) = 1 /\ lexed.tokens[1].t = "Integer"
  IN Lexed(lex_line(src))

\* src parses and does not begin with a line number
IsUnnumbered(src) ==
  LET Lexed(lexed) ==
        lexed.ok /\ Len(lexed.tokens) > 0 /\ lexed.tokens[1].t # "Integer"
  IN Lexed(lex_line(src)) /\ Entered(src).st = "Ok"

\* the entries of program whose number is not n, in order
Without(program, n) == SelectSeq(program, LAMBDA line : line.line_no # n)

\* C1: after any sequence of add_line calls, load and new, the line numbers of
\* the program store are strictly ascending, so no number occurs twice.
C1_StrictlyAscending ==
  \A i \in 1..(Len(basic.program) - 1) :
    basic.program[i].line_no < basic.program[i + 1].line_no

\* a line was inserted in front of a stored line with a greater number
C1_Witness ==
  /\ last.op = "add_line" /\ last.src = T_1A
  /\ Len(last.pre_program) = 1 /\ last.pre_program[1].line_no = 2
  /\ Len(basic.program) = 2

\* C2: add_line with a numbered statement whose number is already stored puts
\* the new node and text at the index of the old entry; the length of the store
\* and every other entry are unchanged.
C2_ReplaceInPlace ==
  LET ReplacedBy(e) ==
        (/\ e.st = "Ok" /\ e.line.node # NilNode
         /\ position(last.pre_program, e.line.line_no) >= 0)
        => /\ last.st = "Ok" /\ ~last.some
           /\ Len(last.stored) = Len(last.pre_program)
           /\ \A i \in 1..Len(last.pre_program) :
                last.stored[i] =
                  IF i = position(last.pre_program, e.line.line_no) + 1
                  THEN e.line ELSE last.pre_program[i]
  IN last.op = "add_line" => ReplacedBy(Entered(last.src))

\* line 1 was re-entered with another statement while lines 1 and 2 were stored
C2_Witness ==
  /\ last.op = "add_line" /\ last.src = T_1B
  /\ Len(last.pre_program) = 2 /\ last.pre_program[1].contents = T_1A
  /\ last.stored[1].contents = T_1B

\* C3: add_line with a bare line number n removes the entry for n when there is
\* one, keeps every other entry in order, leaves the store unchanged when n is
\* not stored, and returns no node in both cases.
C3_BareNumber ==
  (last.op = "add_line" /\ IsBareNumber(last.src))
  => /\ last.st = "Ok" /\ ~last.some
     /\ last.stored = Without(last.pre_program, Entered(last.src).line.line_no)

\* C4: add_line with text that has no leading line number returns the parsed
\* node and leaves the program store unchanged.
C4_Immediate ==
  (last.op = "add_line" /\ IsUnnumbered(last.src))
  => /\ last.st = "Ok" /\ last.some
     /\ last.node = Entered(last.src).line.node
     /\ last.stored = last.pre_program

\* an unnumbered print was entered while a line was stored
C4_Witness ==
  /\ last.op = "add_line" /\ last.src = T_Print1 /\ last.some
  /\ Len(last.pre_program) > 0

\* C5: when add_line fails with a lex error or a parse error, the program
\* store is exactly what it was before the call.
C5_RejectedKeepsStore ==
  (last.op = "add_line" /\ last.st = "Err")
  => /\ last.stored = last.pre_program
     /\ basic.program = last.pre_program

\* a line with a stored number was rejected by the parser
C5_Witness ==
  /\ last.op = "add_line" /\ last.st = "Err" /\ last.src = T_ParseError
  /\ Len(last.pre_program) = 2

(***************************************************************************)
(* Properties of a run.  After a step, last holds the index and node the   *)
(* step executed (idx, node), its result (st), the cursor the node itself  *)
(* left (left_at) and the cursor and stacks before the step (pre).         *)
(***************************************************************************)
\* the texts of the stored lines, in store order
Contents(program) == [i \in 1..Len(program) |-> program[i].contents]

\* node is the builtin command name
IsCommand(node, name) == node.k = "BuiltinCommand" /\ node.name = name

\* C6: the stored program `for i=1 to 5`, `print i`, `next i` runs its body
\* with i = 1, 2, 3, 4, 5 in that order, then removes i and goes on with the
\* line after `next`.
C6_ForOneToFive ==
  (/\ screen = EXEC_SCREEN /\ ~panicked
   /\ Contents(basic.program) = <<T_For15, T_PrintI, T_NextI>>
   /\ basic.line_no = 3)
  => /\ printed_text = <<<<"1">>, <<"2">>, <<"3">>, <<"4">>, <<"5">>>>
     /\ "i" \notin DOMAIN basic.vars

\* the run of that program ends having printed 1, 2, 3, 4 only
C6_Witness ==
  /\ screen = EXEC_SCREEN /\ ~panicked
  /\ Contents(basic.program) = <<T_For15, T_PrintI, T_NextI>>
  /\ basic.line_no = 3
  /\ printed_text = <<<<"1">>, <<"2">>, <<"3">>, <<"4">>>>
  /\ "i" \notin DOMAIN basic.vars

\* C7: the stored program `for i=5 to 1 step -1`, `print i`, `next i` runs its
\* body with i = 5, 4, 3, 2, 1 in that order and then removes i; it never
\* visits a value below the end.
C7_ForFiveDownToOne ==
  (/\ screen = EXEC_SCREEN /\ ~panicked
   /\ Contents(basic.program) = <<T_For51, T_PrintI, T_NextI>>
   /\ basic.line_no = 3)
  => /\ printed_text = <<<<"5">>, <<"4">>, <<"3">>, <<"2">>, <<"1">>>>
     /\ "i" \notin DOMAIN basic.vars

\* the run of that program ends having printed 5, 4, 3, 2, 1 and 0
C7_Witness ==
  /\ screen = EXEC_SCREEN /\ ~panicked
  /\ Contents(basic.program) = <<T_For51, T_PrintI, T_NextI>>
  /\ basic.line_no = 3
  /\ printed_text = <<<<"5">>, <<"4">>, <<"3">>, <<"2">>, <<"1">>, <<"0">>>>
  /\ "i" \notin DOMAIN basic.vars

\* C8: a step that executes a stored `gosub L`, L stored, at index k leaves the
\* cursor at the index of line L and pushes k; a step that executes `ret` pops
\* the newest frame k and leaves the cursor at k + 1; every frame of a run is
\* the index of a gosub line, so nested calls return in LIFO order to the line
\* after their own gosub.
C8_GosubRet ==
  /\ (last.op = "step" /\ last.st = "Ok" /\ IsCommand(last.node, "gosub"))
     => /\ last.node.args[1].k = "Integer"
        /\ basic.line_no = position(basic.program, last.node.args[1].num)
        /\ basic.call_stack = Append(last.pre.call_stack, last.idx)
  /\ (last.op = "step" /\ last.st = "Ok" /\ IsCommand(last.node, "ret"))
     => /\ Len(last.pre.call_stack) > 0
        /\ basic.line_no = last.pre.call_stack[Len(last.pre.call_stack)] + 1
        /\ basic.call_stack =
             SubSeq(last.pre.call_stack, 1, Len(last.pre.call_stack) - 1)
  /\ screen = EXEC_SCREEN
     => \A j \in 1..Len(basic.call_stack) :
          /\ basic.call_stack[j] < Len(basic.program)
          /\ IsCommand(LineAt(basic.program, basic.call_stack[j]).node, "gosub")

\* the inner of two nested calls returned: the cursor is on the line after the
\* inner gosub and the outer frame is still on the stack
C8_Witness ==
  /\ last.op = "step" /\ last.st = "Ok" /\ IsCommand(last.node, "ret")
  /\ Contents(basic.program) = <<T_Gosub4, T_End2, T_Gosub6, T_Ret5, T_Ret6>>
  /\ last.pre.call_stack = <<0, 2>>
  /\ basic.line_no = 3 /\ basic.call_stack = <<0>>

\* C9: a step that executes a node other than goto and gosub ends with the
\* cursor one past the index the node left it at, also after immediate lines
\* and after reset_program_state.
C9_StepAdvances ==
  (/\ last.op = "step" /\ last.st = "Ok"
   /\ ~IsCommand(last.node, "goto") /\ ~IsCommand(last.node, "gosub"))
  => basic.line_no = last.left_at + 1

\* after an immediate goto and a switch to the exec screen, the step that
\* executed the print at index 0 left the cursor at index 0
C9_Witness ==
  /\ last.op = "step" /\ last.st = "Ok" /\ IsCommand(last.node, "print")
  /\ last.stale /\ last.idx = 0 /\ basic.line_no = 0

\* C10: when the statement a step executes returns an error, the cursor and
\* the for, while and call stacks equal their values before the step.
C10_ErrorKeepsCursor ==
  (last.op = "step" /\ last.st = "Err")
  => /\ basic.line_no = last.pre.line_no
     /\ basic.for_stack = last.pre.for_stack
     /\ basic.while_stack = last.pre.while_stack
     /\ basic.call_stack = last.pre.call_stack

\* the step that executed `print x` with x unbound returned an error and left
\* the cursor one past the failed line
C10_Witness ==
  /\ last.op = "step" /\ last.st = "Err" /\ last.node = Entered(T_2PrintX).line.node
  /\ basic.line_no = last.pre.line_no + 1

(***************************************************************************)
(* Sessions that store a while loop and run it.                            *)
(***************************************************************************)
\* "1 i=2"
T_Let2 == <<"1", " ", "i", "=", "2">>

\* "1 i=0"
T_Let0 == <<"1", " ", "i", "=", "0">>

\* "2 while i"
T_WhileI == <<"2", " ", "w", "h", "i", "l", "e", " ", "i">>

\* "3 i=i-1"
T_Dec == <<"3", " ", "i", "=", "i", "-", "1">>

\* "4 loop"
T_Loop4 == <<"4", " ", "l", "o", "o", "p">>

\* "5 print i"
T_PrintI5 == <<"5", " ", "p", "r", "i", "n", "t", " ", "i">>

\* "6 loop"
T_Loop6 == <<"6", " ", "l", "o", "o", "p">>

LoopTexts == {T_Let2, T_Let0, T_WhileI, T_Dec, T_Loop4, T_PrintI5, T_Loop6}

NextLoop ==
  \/ OnTextInput(LoopTexts)
  \/ OnKeyReturn
  \/ OnKeyCtrlTab
  \/ ExecStep
  \/ ExecuteCodeReturn

SpecLoop == Init /\ [][NextLoop]_vars

RECURSIVE MatchingLoop(_, _, _)
\* the index of the `loop` that closes a `while`, searching from index j with
\* depth nested pairs open; -1 when the program has none
MatchingLoop(program, j, depth) ==
  IF j >= Len(program) THEN -1
  ELSE IF IsCommand(LineAt(program, j).node, "loop")
  THEN (IF depth = 0 THEN j ELSE MatchingLoop(program, j + 1, depth - 1))
  ELSE IF IsCommand(LineAt(program, j).node, "while")
  THEN MatchingLoop(program, j + 1, depth + 1)
  ELSE MatchingLoop(program, j + 1, depth)

\* the value of the condition node cond in the environment the last step
\* started from
CondBefore(cond) == interpret([Ko EXCEPT !.basic.vars = last.pre.vars], cond)

\* C11: a step that executes a stored `while` whose condition is falsy, in a
\* program that holds the matching `loop`, returns Ok with the cursor set to
\* the index of that loop (so the step ends one past it) and leaves the while
\* stack as it was.
C11_FalsyWhileSkipsBody ==
  (/\ last.op = "step" /\ IsCommand(last.node, "while") /\ Len(last.node.args) = 1
   /\ CondBefore(last.node.args[1]).st = "Ok"
   /\ ~is_truthy(CondBefore(last.node.args[1]).val)
   /\ MatchingLoop(basic.program, last.idx + 1, 0) >= 0)
  => /\ last.st = "Ok"
     /\ basic.line_no = MatchingLoop(basic.program, last.idx + 1, 0) + 1
     /\ basic.while_stack = last.pre.while_stack

\* `1 i=0`, `2 while i`, `3 i=i-1`, `4 loop`, `5 print i`, `6 loop`: the step
\* that executed the falsy while ended past the second loop, at the end of the
\* program, so `5 print i` is never executed
C11_Witness ==
  /\ last.op = "step" /\ IsCommand(last.node, "while") /\ last.st = "Ok"
  /\ Contents(basic.program) = <<T_Let0, T_WhileI, T_Dec, T_Loop4, T_PrintI5, T_Loop6>>
  /\ last.idx = 1 /\ basic.line_no = 6

C12_WitnessTruthy ==
  /\ last.op = "step" /\ IsCommand(last.node, "loop") /\ last.st = "Ok"
  /\ Contents(basic.program) = <<T_Let2, T_WhileI, T_Dec, T_Loop4, T_PrintI5>>
  /\ basic.while_stack = <<1>> /\ basic.line_no = 2

(***************************************************************************)
(* Sessions that run control statements which have nothing to act on.      *)
(***************************************************************************)
\* "1 x=1"
T_X1 == <<"1", " ", "x", "=", "1">>

\* "2 next x"
T_NextX == <<"2", " ", "n", "e", "x", "t", " ", "x">>

\* "3 loop"
T_Loop3 == <<"3", " ", "l", "o", "o", "p">>

\* "4 ret"
T_Ret4 == <<"4", " ", "r", "e", "t">>

\* "5 goto 9"
T_Goto9 == <<"5", " ", "g", "o", "t", "o", " ", "9">>

\* "6 gosub 9"
T_Gosub9 == <<"6", " ", "g", "o", "s", "u", "b", " ", "9">>

ErrTexts == {T_X1, T_NextX, T_Loop3, T_Ret4, T_Goto9, T_Gosub9}

NextErr ==
  \/ OnTextInput(ErrTexts)
  \/ OnKeyReturn
  \/ OnKeyCtrlTab
  \/ ExecStep
  \/ ExecuteCodeReturn

SpecErr == Init /\ [][NextErr]_vars

\* the environment and the three stacks of the current state are those the
\* last step started from
StacksKept ==
  /\ basic.vars = last.pre.vars
  /\ basic.for_stack = last.pre.for_stack
  /\ basic.while_stack = last.pre.while_stack
  /\ basic.call_stack = last.pre.call_stack

\* C13: a step that executes `next` with an empty for stack, `loop` with an
\* empty while stack or `ret` with an empty call stack returns an error and
\* leaves the environment and the for, while and call stacks unchanged.
C13_EmptyStackErrors ==
  (/\ last.op = "step"
   /\ \/ IsCommand(last.node, "next") /\ Len(last.pre.for_stack) = 0
      \/ IsCommand(last.node, "loop") /\ Len(last.pre.while_stack) = 0
      \/ IsCommand(last.node, "ret") /\ Len(last.pre.call_stack) = 0)
  => last.st = "Err" /\ StacksKept

\* `1 x=1`, `4 ret`: the ret ran with x bound and no call frame
C13_Witness ==
  /\ last.op = "step" /\ IsCommand(last.node, "ret") /\ last.st = "Err"
  /\ Contents(basic.program) = <<T_X1, T_Ret4>>
  /\ basic.vars = VarsInsert(EmptyVars, "x", IntegerValue(1))
  /\ basic.call_stack = <<>>

\* `1 x=1`, `2 next x`: the next ran with x bound and no for frame
C13_WitnessNext ==
  /\ last.op = "step" /\ IsCommand(last.node, "next") /\ last.st = "Err"
  /\ Contents(basic.program) = <<T_X1, T_NextX>>
  /\ basic.vars = VarsInsert(EmptyVars, "x", IntegerValue(1))

\* `1 x=1`, `3 loop`: the loop ran with x bound and no while frame
C13_WitnessLoop ==
  /\ last.op = "step" /\ IsCommand(last.node, "loop") /\ last.st = "Err"
  /\ Contents(basic.program) = <<T_X1, T_Loop3>>
  /\ basic.vars = VarsInsert(EmptyVars, "x", IntegerValue(1))

\* C14: a step that executes `goto n` or `gosub n`, n a number no stored line
\* has, returns an error; the statement leaves the cursor on its own line
\* and the environment and the three stacks, the call stack included, as
\* they were.
C14_MissingTarget ==
  (/\ last.op = "step"
   /\ IsCommand(last.node, "goto") \/ IsCommand(last.node, "gosub")
   /\ Len(last.node.args) = 1 /\ last.node.args[1].k = "Integer"
   /\ position(basic.program, last.node.args[1].num) < 0)
  => last.st = "Err" /\ last.left_at = last.idx /\ StacksKept

\* `1 x=1`, `6 gosub 9`: the gosub found no line 9 and pushed no frame
C14_Witness ==
  /\ last.op = "step" /\ IsCommand(last.node, "gosub") /\ last.st = "Err"
  /\ Contents(basic.program) = <<T_X1, T_Gosub9>>
  /\ last.idx = 1 /\ basic.call_stack = <<>>

\* `1 x=1`, `5 goto 9`: the goto found no line 9
C14_WitnessGoto ==
  /\ last.op = "step" /\ IsCommand(last.node, "goto") /\ last.st = "Err"
  /\ Contents(basic.program) = <<T_X1, T_Goto9>>
  /\ last.idx = 1 /\ last.left_at = 1

\* C15: a step that executes a stored `end` leaves the cursor at or past the
\* program length; and on the exec screen, once the cursor is at or past the
\* program length, the next thing to happen is never the execution of a stored
\* line and the cursor stays there until the screen is left (entering it
\* again resets the run state), whatever lines follow `end`.
C15_EndStopsRun ==
  /\ []((last.op = "step" /\ IsCommand(last.node, "end") /\ last.st = "Ok")
          => basic.line_no >= Len(basic.program))
  /\ [][(screen = EXEC_SCREEN /\ basic.line_no >= Len(basic.program))
         => /\ last'.op # "step"
            /\ screen' = EXEC_SCREEN
               => /\ basic'.line_no >= Len(basic'.program)
                  /\ printed_text' = printed_text]_vars

\* `1 gosub 4`, `2 end`, `4 gosub 6`, `5 ret`, `6 ret`: the run came back from
\* both calls, executed `2 end` and was handed back to the host with three
\* stored lines after the end unexecuted
C15_Witness ==
  /\ last.op = "batch_end"
  /\ Contents(basic.program) = <<T_Gosub4, T_End2, T_Gosub6, T_Ret5, T_Ret6>>
  /\ basic.line_no = 6 /\ basic.call_stack = <<>>

(***************************************************************************)
(* Sessions whose runs end with frames left on all three stacks.           *)
(***************************************************************************)
\* "1 gosub 3"
T_Gosub3 == <<"1", " ", "g", "o", "s", "u", "b", " ", "3">>

\* "3 while 1"
T_While1 == <<"3", " ", "w", "h", "i", "l", "e", " ", "1">>

\* "4 for i=1 to 2"
T_For12 == <<"4", " ", "f", "o", "r", " ", "i", "=", "1", " ", "t", "o", " ", "2">>

ResetTexts == {T_Gosub3, T_While1, T_For12}

NextReset ==
  \/ OnTextInput(ResetTexts)
  \/ OnKeyReturn
  \/ OnKeyCtrlTab
  \/ ExecStep
  \/ ExecuteCodeReturn

SpecReset == Init /\ [][NextReset]_vars

\* C16: right after reset_program_state (the switch to the exec screen) the
\* environment and the for, while and call stacks are empty and the cursor is
\* 0, and the stored lines are those from before, in the same order with the
\* same numbers, nodes and texts.
C16_ResetKeepsLines ==
  (last.op = "ctrl_tab" /\ screen = EXEC_SCREEN)
  => /\ basic.vars = EmptyVars
     /\ basic.for_stack = <<>> /\ basic.while_stack = <<>> /\ basic.call_stack = <<>>
     /\ basic.line_no = 0
     /\ basic.program = last.pre_program

\* the reset followed a run of `1 gosub 3`, `3 while 1`, `4 for i=1 to 2` that
\* left a frame on each stack, i bound and the cursor at the end
C16_Witness ==
  /\ last.op = "ctrl_tab" /\ screen = EXEC_SCREEN
  /\ Contents(basic.program) = <<T_Gosub3, T_While1, T_For12>>
  /\ last.pre.call_stack = <<0>> /\ last.pre.while_stack = <<1>>
  /\ Len(last.pre.for_stack) = 1 /\ "i" \in DOMAIN last.pre.vars
  /\ last.pre.line_no = 3

\* the store that `new` followed by load makes of the file save writes for
\* program
Reload(program) == LoadLines(<<>>, SplitLines(WriteLines(program, 0), 0, <<>>), 0)

Straight(program) ==
  \A i \in 1..Len(program) :
    /\ program[i].node.k # "For"
    /\ program[i].node.k = "BuiltinCommand"
       => program[i].node.name \notin
            {"goto", "gosub", "next", "while", "loop", "end", "load", "new"}

\* C18: in a run of a stored program without goto, gosub, for/next,
\* while/loop, end, load and new, the k-th step executes the k-th stored line
\* and ends with the cursor on the next one, so that each line has put its one
\* entry on the screen in store order; and when the host loop hands the run
\* back the cursor is at the program length with one entry per line.
C18_StraightLine ==
  (screen = EXEC_SCREEN /\ ~panicked /\ Straight(basic.program))
  => /\ last.op = "step"
        => basic.line_no = last.idx + 1 /\ Len(printed_text) = last.idx + 1
     /\ last.op = "batch_end"
        => /\ basic.line_no = Len(basic.program)
           /\ Len(printed_text) = Len(basic.program)

\* the store holds `1 print 1` alone and the finished run has printed 1 twice
C18_Witness ==
  /\ screen = EXEC_SCREEN /\ last.op = "batch_end"
  /\ Contents(basic.program) = <<T_1Print1>>
  /\ printed_text = <<<<"1">>, <<"1">>>>
  /\ basic.line_no = 1

(***************************************************************************)
(* Sessions that store assignments of arithmetic expressions and run them. *)
(***************************************************************************)
\* 1 a=2 + 3 * 4
T_A == <<"1", " ", "a", "=", "2", " ", "+", " ", "3", " ", "*", " ", "4">>

\* 2 b=(2+3)*4
T_B == <<"2", " ", "b", "=", "(", "2", "+", "3", ")", "*", "4">>

\* 3 c=2 - -3
T_C == <<"3", " ", "c", "=", "2", " ", "-", " ", "-", "3">>

ExprTexts == {T_A, T_B, T_C}

NextExpr ==
  \/ OnTextInput(ExprTexts)
  \/ OnKeyReturn
  \/ OnKeyCtrlTab
  \/ ExecStep
  \/ ExecuteCodeReturn

SpecExpr == Init /\ [][NextExpr]_vars

\* the last step executed the stored line whose text is src
Ran(src) ==
  /\ last.op = "step" /\ last.idx < Len(basic.program)
  /\ LineAt(basic.program, last.idx).contents = src

\* the step that executes the line src returns Ok and leaves name bound to value
Gives(src, name, value) ==
  Ran(src) => /\ last.st = "Ok"
              /\ name \in DOMAIN basic.vars
              /\ basic.vars[name] = value

\* C19: `2 + 3 * 4` is Integer 14, `(2+3)*4` is Integer 20 and `2 - -3` is
\* Integer 5, as parsed by the expression grammar and evaluated by interpret.
C19_Precedence ==
  /\ Gives(T_A, "a", IntegerValue(14))
  /\ Gives(T_B, "b", IntegerValue(20))
  /\ Gives(T_C, "c", IntegerValue(5))

\* the run of all three lines has just evaluated the last one
C19_Witness ==
  /\ Ran(T_C)
  /\ {"a", "b", "c"} \subseteq DOMAIN basic.vars
  /\ basic.vars["a"] = IntegerValue(14) /\ basic.vars["b"] = IntegerValue(20)
  /\ basic.vars["c"] = IntegerValue(5)

(***************************************************************************)
(* Sessions that store sums of operands of every type and run them.        *)
(***************************************************************************)
\* 1 d=1+2
T_D == <<"1", " ", "d", "=", "1", "+", "2">>

\* 2 e=1+1.5
T_E == <<"2", " ", "e", "=", "1", "+", "1", ".", "5">>

\* 3 f=1.5+1
T_F == <<"3", " ", "f", "=", "1", ".", "5", "+", "1">>

\* 4 g=1.5+1.5
T_G == <<"4", " ", "g", "=", "1", ".", "5", "+", "1", ".", "5">>

\* 5 h="x"+"y"
T_H == <<"5", " ", "h", "=", "\"", "x", "\"", "+", "\"", "y", "\"">>

\* 6 s=1+"x"
T_IntStr == <<"6", " ", "s", "=", "1", "+", "\"", "x", "\"">>

\* 6 s="x"+1
T_StrInt == <<"6", " ", "s", "=", "\"", "x", "\"", "+", "1">>

\* 6 s=1.5+"x"
T_FloatStr == <<"6", " ", "s", "=", "1", ".", "5", "+", "\"", "x", "\"">>

\* 6 s="x"+1.5
T_StrFloat == <<"6", " ", "s", "=", "\"", "x", "\"", "+", "1", ".", "5">>

PlusTexts ==
  {T_D, T_E, T_F, T_G, T_H, T_IntStr, T_StrInt, T_FloatStr, T_StrFloat}

NextPlus ==
  \/ OnTextInput(PlusTexts)
  \/ OnKeyReturn
  \/ OnKeyCtrlTab
  \/ ExecStep
  \/ ExecuteCodeReturn

SpecPlus == Init /\ [][NextPlus]_vars

\* operands of every type `+` distinguishes
PlusOperands ==
  {IntegerValue(1), IntegerValue(-2), FloatValue(3, 2), FloatValue(2, 1),
   StringValue(<<"x">>), StringValue(<<>>)}

\* l is a number and r is, and one of them is a Float
FloatMix(l, r) ==
  /\ {l.t, r.t} \subseteq {"Integer", "Float"}
  /\ "Float" \in {l.t, r.t}

\* C20: `+` gives an Integer for Integer+Integer, a Float for every other
\* pair of Integer and Float operands, the concatenation for String+String
\* and an error for a number and a String in either order, which binds
\* nothing: in stored assignments that are run, and for every pair of
\* operands of the three types.
C20_Plus ==
  /\ Gives(T_D, "d", IntegerValue(3))
  /\ Gives(T_E, "e", FloatValue(5, 2))
  /\ Gives(T_F, "f", FloatValue(5, 2))
  /\ Gives(T_G, "g", FloatValue(3, 1))
  /\ Gives(T_H, "h", StringValue(<<"x", "y">>))
  /\ \A src \in {T_IntStr, T_StrInt, T_FloatStr, T_StrFloat} :
       Ran(src) => last.st = "Err" /\ basic.vars = last.pre.vars
  /\ \A l \in PlusOperands, r \in PlusOperands :
       LET Sum(v) ==
             /\ (l.t = "Integer" /\ r.t = "Integer")
                => v.st = "Ok" /\ v.val = IntegerValue(l.num + r.num)
             /\ FloatMix(l, r) => v.st = "Ok" /\ v.val.t = "Float"
             /\ (l.t = "String" /\ r.t = "String")
                => v.st = "Ok" /\ v.val = StringValue(l.string \o r.string)
             /\ (l.t = "String") # (r.t = "String") => v.st = "Err"
       IN Sum(BinOpApply("Add", l, r))

\* the run has bound the five sums and its last step, `6 s=1.5+"x"`, returned
\* an error
C20_Witness ==
  /\ Ran(T_FloatStr) /\ last.st = "Err"
  /\ DOMAIN basic.vars = {"d", "e", "f", "g", "h"}
  /\ basic.vars["e"] = FloatValue(5, 2) /\ basic.vars["h"] = StringValue(<<"x", "y">>)

(***************************************************************************)
(* Sessions that run a for whose variable may already be bound and whose   *)
(* start expression binds a second variable.                               *)
(***************************************************************************)
\* 1 i=7
T_I7 == <<"1", " ", "i", "=", "7">>

\* 2 for i=(j=1) to 5 step 2
T_ForJ == <<"2", " ", "f", "o", "r", " ", "i", "=", "(", "j", "=", "1", ")", " ", "t", "o", " ", "5", " ", "s", "t", "e", "p", " ", "2">>

\* 3 print i
T_3PrintI == <<"3", " ", "p", "r", "i", "n", "t", " ", "i">>

BoundTexts == {T_I7, T_ForJ, T_3PrintI}

NextBound ==
  \/ OnTextInput(BoundTexts)
  \/ OnKeyReturn
  \/ OnKeyCtrlTab
  \/ ExecStep
  \/ ExecuteCodeReturn

SpecBound == Init /\ [][NextBound]_vars

\* C21: a step that executes `for name = ...` with name bound returns an
\* error and leaves the environment (so start, end and step were not
\* evaluated and name was not rebound) and the for stack as they were; with
\* name unbound it binds name to the start value and pushes exactly one
\* frame holding the index of the for line, the end value and the step value.
C21_ForBound ==
  (last.op = "step" /\ last.node.k = "For")
  => /\ last.node.name \in DOMAIN last.pre.vars
        => /\ last.st = "Err"
           /\ basic.vars = last.pre.vars
           /\ basic.for_stack = last.pre.for_stack
     /\ last.node.name \notin DOMAIN last.pre.vars
        => /\ last.st = "Ok"
           /\ basic.vars[last.node.name] = CondBefore(last.node.start).val
           /\ basic.for_stack =
                Append(last.pre.for_stack,
                       [line_no |-> last.idx,
                        end |-> CondBefore(last.node.end).val,
                        step |-> CondBefore(last.node.step).val])

\* `1 i=7`, `2 for i=(j=1) to 5 step 2`: the for found i bound; j, which its
\* start expression would bind, is unbound
C21_Witness ==
  /\ last.op = "step" /\ last.node.k = "For" /\ last.st = "Err"
  /\ Contents(basic.program) = <<T_I7, T_ForJ>>
  /\ basic.vars = VarsInsert(EmptyVars, "i", IntegerValue(7))
  /\ basic.for_stack = <<>>

\* `2 for i=(j=1) to 5 step 2` alone: i and j are bound to 1 and one frame
\* holds index 0, end 5 and step 2
C21_WitnessUnbound ==
  /\ last.op = "step" /\ last.node.k = "For" /\ last.st = "Ok"
  /\ Contents(basic.program) = <<T_ForJ>>
  /\ basic.vars["i"] = IntegerValue(1) /\ basic.vars["j"] = IntegerValue(1)
  /\ basic.for_stack =
       <<[line_no |-> 0, end |-> IntegerValue(5), step |-> IntegerValue(2)]>>

\* C22: when an immediate line entered in the editor fails in evaluation, the
\* failure reaches the host as an error text and the host keeps running.
C22_ImmediateErrorSurvives ==
  (last.op = "add_line" /\ last.some /\ last.run = "Err")
  => ~panicked /\ Len(error) = 1

\* `goto 1` was entered with no line 1 stored: interpret returned an error to
\* the Return handler and the process is gone
C22_Witness ==
  /\ last.op = "add_line" /\ last.src = T_Goto1 /\ last.some /\ last.run = "Err"
  /\ basic.program = <<>>
  /\ panicked

(***************************************************************************)
(* Sessions that enter lines ending in the middle of a construct, and a    *)
(* call with several arguments, and edit them with End and Backspace.      *)
(***************************************************************************)
\* 1 line({1,2},{3,4},5)
T_Line == <<"1", " ", "l", "i", "n", "e", "(", "{", "1", ",", "2", "}", ",", "{", "3", ",", "4", "}", ",", "5", ")">>

\* 2 x=1+
T_XPlus == <<"2", " ", "x", "=", "1", "+">>

\* 3 for i
T_ForI == <<"3", " ", "f", "o", "r", " ", "i">>

\* 4 a[1
T_Index == <<"4", " ", "a", "[", "1">>

\* 5 (1
T_Paren == <<"5", " ", "(", "1">>

\* 6 {1
T_Curly == <<"6", " ", "{", "1">>

ParseTexts == {T_Line, T_XPlus, T_ForI, T_Index, T_Paren, T_Curly}

NextParse ==
  \/ OnTextInput(ParseTexts)
  \/ OnKeyReturn
  \/ OnKeyEnd
  \/ OnKeyBackspace

SpecParse == Init /\ [][NextParse]_vars

\* the tokens of src, or none when src does not lex
TokensOf(src) ==
  LET Lexed(lexed) == IF lexed.ok THEN lexed.tokens ELSE <<>>
  IN Lexed(lex_line(src))

\* src is a line number, a registered builtin name and `(`, and what follows
\* is a complete comma-separated argument list closed by `)` at the end of
\* the line
IsCall(src) ==
  LET Complete(tokens, call) == call.st = "Ok" /\ call.idx = Len(tokens)
      Shape(tokens) ==
        /\ Len(tokens) >= 3
        /\ tokens[1].t = "Integer" /\ tokens[1].num > 0
        /\ tokens[2].t = "Identifier" /\ tokens[2].name \in builtin_commands
        /\ tokens[3].t = "LParen"
        /\ Complete(tokens, atom(1, tokens))
  IN Shape(TokensOf(src))

\* C23: a numbered line whose statement is a registered builtin name
\* immediately followed by a parenthesised, comma-separated argument list is
\* accepted and stored as the BuiltinCommand of the call form, its args the
\* expressions between the parentheses (three for `line({1,2},{3,4},5)`).
C23_CallForm ==
  (last.op = "add_line" /\ IsCall(last.src))
  => /\ last.st = "Ok" /\ ~last.some
     /\ LET n == TokensOf(last.src)[1].num
            call == atom(1, TokensOf(last.src)).node
        IN /\ position(last.stored, n) >= 0
           /\ LineAt(last.stored, position(last.stored, n)).node = call
           /\ last.src = T_Line => Len(call.args) = 3

\* `1 line({1,2},{3,4},5)` was entered and rejected; nothing is stored
C23_Witness ==
  /\ last.op = "add_line" /\ last.src = T_Line /\ last.st = "Err"
  /\ basic.program = <<>> /\ current_line = T_Line

\* C24: add_line's parse of an entered line returns a Line or an error; it
\* does not abort, whatever construct the line ends in.
C24_ParseNeverAborts ==
  last.op = "add_line" => last.st # "Panic"

\* `2 x=1+` was entered: the parser indexed past the last token
C24_Witness ==
  /\ last.op = "add_line" /\ last.src = T_XPlus /\ last.st = "Panic"
  /\ panicked

(***************************************************************************)
(* Sessions that run a program with a refresh in it, after an immediate   *)
(* goto or without one.                                                    *)
(***************************************************************************)
\* 2 refresh
T_Refresh == <<"2", " ", "r", "e", "f", "r", "e", "s", "h">>

\* 3 print 7
T_3Print7 == <<"3", " ", "p", "r", "i", "n", "t", " ", "7">>

\* goto 2
T_Goto2 == <<"g", "o", "t", "o", " ", "2">>

RefreshTexts == {T_1Print1, T_Refresh, T_3Print7, T_Goto2}

NextRefresh ==
  \/ OnTextInput(RefreshTexts)
  \/ OnKeyReturn
  \/ OnKeyCtrlTab
  \/ ExecStep
  \/ ExecuteCodeReturn

SpecRefresh == Init /\ [][NextRefresh]_vars

\* C25: the step that executes `refresh` sets the refresh flag and ends on the
\* next statement; with the flag set on the exec screen the batch executes
\* nothing more: it returns with the flag cleared and the cursor where it
\* was, so the next batch resumes at the statement after `refresh`; and a
\* batch that returns without the flag having been set has its cursor at the
\* end of the program.  (A batch that a failing statement ends returns the
\* error instead; it is not one of these returns.)
C25_RefreshEndsBatch ==
  /\ []((last.op = "step" /\ IsCommand(last.node, "refresh") /\ last.st = "Ok")
          => basic.refresh /\ basic.line_no = last.idx + 1)
  /\ [][(screen = EXEC_SCREEN /\ basic.refresh /\ screen' = EXEC_SCREEN)
         => /\ last'.op = "batch_end"
            /\ ~basic'.refresh
            /\ basic'.line_no = basic.line_no]_vars
  /\ [][(last'.op = "batch_end" /\ ~basic.refresh)
         => basic.line_no >= Len(basic.program)]_vars

\* `2 refresh` alone, after the immediate `goto 2`: the step that executed the
\* refresh left the cursor on it, so the next batch executes it again
C25_Witness ==
  /\ last.op = "step" /\ IsCommand(last.node, "refresh") /\ last.st = "Ok"
  /\ Contents(basic.program) = <<T_Refresh>>
  /\ last.stale /\ basic.refresh /\ basic.line_no = 0

\* `1 print 1`, `2 refresh`, `3 print 7`: the batch after the one that the
\* refresh ended has executed `3 print 7`
C25_WitnessResume ==
  /\ last.op = "step" /\ last.idx = 2 /\ last.st = "Ok"
  /\ Contents(basic.program) = <<T_1Print1, T_Refresh, T_3Print7>>
  /\ printed_text = <<<<"1">>, <<"7">>>>
  /\ ~basic.refresh

\* the batch that executed `1 print 1` and `2 refresh` has returned with the
\* flag cleared and the cursor on `3 print 7`
C25_WitnessYield ==
  /\ last.op = "batch_end" /\ basic.line_no = 2 /\ ~basic.refresh
  /\ Contents(basic.program) = <<T_1Print1, T_Refresh, T_3Print7>>
  /\ printed_text = <<<<"1">>>>

(***************************************************************************)
(* Sessions that run a statement which fails after an assignment nested in *)
(* it has been evaluated.                                                  *)
(***************************************************************************)
\* 1 z=5
T_Z5 == <<"1", " ", "z", "=", "5">>

\* 2 y=(x=1)+"a"
T_Partial == <<"2", " ", "y", "=", "(", "x", "=", "1", ")", "+", "\"", "a", "\"">>

\* 3 print x
T_3PrintX == <<"3", " ", "p", "r", "i", "n", "t", " ", "x">>

PartialTexts == {T_Z5, T_Partial, T_3PrintX}

NextPartial ==
  \/ OnTextInput(PartialTexts)
  \/ OnKeyReturn
  \/ OnKeyCtrlTab
  \/ ExecStep
  \/ ExecuteCodeReturn

SpecPartial == Init /\ [][NextPartial]_vars

\* C26: the step that executes `y=(x=1)+"a"` returns an error, and the
\* environment after it is the one before it with x bound to 1: the nested
\* assignment stays, y is not bound and every other binding is unchanged.
C26_PartialEffects ==
  Ran(T_Partial)
  => /\ last.st = "Err"
     /\ basic.vars = VarsInsert(last.pre.vars, "x", IntegerValue(1))

\* `1 z=5`, `2 y=(x=1)+"a"`: the failed statement left x bound next to z
C26_Witness ==
  /\ Ran(T_Partial) /\ last.st = "Err"
  /\ last.pre.vars = VarsInsert(EmptyVars, "z", IntegerValue(5))
  /\ DOMAIN basic.vars = {"x", "z"}
  /\ basic.vars["x"] = IntegerValue(1) /\ basic.vars["z"] = IntegerValue(5)

(***************************************************************************)
(* Sessions that edit the store after a run has left variables, frames on  *)
(* all three stacks and a cursor behind.                                   *)
(***************************************************************************)
\* 1
T_Bare1 == <<"1">>

\* 2 gosub 3
T_2Gosub3 == <<"2", " ", "g", "o", "s", "u", "b", " ", "3">>

KeepTexts == {T_For15, T_For51, T_Bare1, T_ParseError, T_Print1, T_2Gosub3, T_While1}

NextKeep ==
  \/ OnTextInput(KeepTexts)
  \/ OnKeyReturn
  \/ OnKeyCtrlTab
  \/ ExecStep
  \/ ExecuteCodeReturn

SpecKeep == Init /\ [][NextKeep]_vars

\* C27: add_line leaves the environment, the three stacks and the cursor
\* alone.  A Return that stores, replaces, deletes or rejects a line changes
\* none of them; a Return on an immediate line changes them only as the
\* interpretation of the returned node does, starting from the state before.
C27_EditKeepsRunState ==
  [][last'.op = "add_line"
     => IF last'.some
        THEN RunState(basic') =
               RunState(interpret([Ko EXCEPT !.basic.program = last'.stored],
                                  last'.node).ko.basic)
        ELSE RunState(basic') = RunState(basic)]_vars

\* after a run of `1 for i=1 to 5`, `2 gosub 3`, `3 while 1`, line 1 was
\* deleted: i, the three frames and the cursor are still there
C27_Witness ==
  /\ last.op = "add_line" /\ last.src = T_Bare1 /\ last.st = "Ok"
  /\ Contents(last.pre_program) = <<T_For15, T_2Gosub3, T_While1>>
  /\ Contents(basic.program) = <<T_2Gosub3, T_While1>>
  /\ "i" \in DOMAIN basic.vars /\ Len(basic.for_stack) = 1
  /\ basic.call_stack = <<1>> /\ basic.while_stack = <<2>>
  /\ basic.line_no = 3

\* after the same run the immediate `print 1` was entered
C27_WitnessImmediate ==
  /\ last.op = "add_line" /\ last.src = T_Print1 /\ last.some
  /\ Contents(basic.program) = <<T_For15, T_2Gosub3, T_While1>>
  /\ basic.call_stack = <<1>> /\ basic.line_no = 3

\* after the same run `1 )` was entered and rejected
C27_WitnessRejected ==
  /\ last.op = "add_line" /\ last.src = T_ParseError /\ last.st = "Err"
  /\ Contents(basic.program) = <<T_For15, T_2Gosub3, T_While1>>
  /\ basic.call_stack = <<1>> /\ basic.line_no = 3

(***************************************************************************)
(* Sessions that enter lines numbered 0 and 1 in the editor.               *)
(***************************************************************************)
\* 0 print 1
T_0Print1 == <<"0", " ", "p", "r", "i", "n", "t", " ", "1">>

ZeroTexts == {T_0Print1, T_Bare0, T_1Print1, T_Bare1}

NextZero ==
  \/ OnTextInput(ZeroTexts)
  \/ OnKeyReturn
  \/ OnKeyEnd
  \/ OnKeyBackspace
  \/ OnKeyCtrlTab
  \/ ExecStep
  \/ ExecuteCodeReturn

SpecZero == Init /\ [][NextZero]_vars

\* src lexes and begins with an integer literal
HasLineNumber(src) ==
  LET Lexed(lexed) ==
        lexed.ok /\ Len(lexed.tokens) > 0 /\ lexed.tokens[1].t = "Integer"
  IN Lexed(lex_line(src))

\* C28: a line that begins with an integer literal, 0 included, is never
\* returned by add_line as an immediate node.
C28_NumberedNeverImmediate ==
  (last.op = "add_line" /\ HasLineNumber(last.src)) => ~last.some

\* `0 print 1` came back from add_line as an immediate print and was run;
\* the store is as it was
C28_Witness ==
  /\ last.op = "add_line" /\ last.src = T_0Print1
  /\ last.some /\ IsCommand(last.node, "print") /\ last.run = "Ok"
  /\ last.stored = last.pre_program

\* a line numbered 1 is stored and no node comes back
C28_WitnessStored ==
  /\ last.op = "add_line" /\ last.src = T_1Print1 /\ ~last.some
  /\ Contents(basic.program) = <<T_1Print1>>

(***************************************************************************)
(* Sessions that start with a file on disk whose second line does not      *)
(* parse, and load it from a stored program.                               *)
(***************************************************************************)
\* 5 print x
T_5PrintX == <<"5", " ", "p", "r", "i", "n", "t", " ", "x">>

\* 8 load "c"
T_8LoadC == <<"8", " ", "l", "o", "a", "d", " ", "\"", "c", "\"">>

\* 9 load "b"
T_9LoadB == <<"9", " ", "l", "o", "a", "d", " ", "\"", "b", "\"">>

\* the bytes of file b: `5 print x`, a newline, `6 )`, a newline
BadFile == T_5PrintX \o <<"\n", "6", " ", ")", "\n">>

\* the state at start-up when file b is already on disk
InitDisk ==
  /\ basic = NewBASIC
  /\ screen = BASIC_SCREEN
  /\ printed_text = <<>>
  /\ current_line = <<>>
  /\ cursor = 0
  /\ line_cursor = 0
  /\ error = <<>>
  /\ files = [f \in {<<"b">>} |-> BadFile]
  /\ keys_down = <<>>
  /\ keys_idx = 0
  /\ pc = "poll"
  /\ panicked = FALSE
  /\ last = [op |-> "init"]

LoadTexts == {T_1Print1, T_8LoadC, T_9LoadB}

NextLoad ==
  \/ OnTextInput(LoadTexts)
  \/ OnKeyReturn
  \/ OnKeyCtrlTab
  \/ ExecStep
  \/ ExecuteCodeReturn

SpecLoad == InitDisk /\ [][NextLoad]_vars

\* C29: a load that fails leaves the program store as it was before the load.
C29_FailedLoadKeepsStore ==
  [][(last'.op = "step" /\ IsCommand(last'.node, "load") /\ last'.st = "Err")
     => basic'.program = basic.program]_vars

\* `9 load "b"` has failed on the file's second line: the stored lines are
\* gone and the file's first line is the whole store
C29_Witness ==
  /\ last.op = "step" /\ IsCommand(last.node, "load") /\ last.st = "Err"
  /\ Contents(basic.program) = <<T_5PrintX>>

\* `8 load "c"` has failed because there is no file c: the store is kept
C29_WitnessMissing ==
  /\ last.op = "step" /\ IsCommand(last.node, "load") /\ last.st = "Err"
  /\ Contents(basic.program) = <<T_1Print1, T_8LoadC>>

(***************************************************************************)
(* Sessions that store assignments of == comparisons and run them.         *)
(***************************************************************************)
\* 1 a={1,{2}}=={1,{2}}
T_EqNested == <<"1", " ", "a", "=", "{", "1", ",", "{", "2", "}", "}", "=", "=", "{", "1", ",", "{", "2", "}", "}">>

\* 2 b={1,{2}}=={1,{3}}
T_EqDeep == <<"2", " ", "b", "=", "{", "1", ",", "{", "2", "}", "}", "=", "=", "{", "1", ",", "{", "3", "}", "}">>

\* 3 c=1=="1"
T_EqIntStr == <<"3", " ", "c", "=", "1", "=", "=", "\"", "1", "\"">>

\* 4 d=1==1.0
T_EqIntFloat == <<"4", " ", "d", "=", "1", "=", "=", "1", ".", "0">>

\* 5 e="x"=="x"
T_EqStr == <<"5", " ", "e", "=", "\"", "x", "\"", "=", "=", "\"", "x", "\"">>

\* 6 f={1}=={1,2}
T_EqLen == <<"6", " ", "f", "=", "{", "1", "}", "=", "=", "{", "1", ",", "2", "}">>

EqTexts == {T_EqNested, T_EqDeep, T_EqIntStr, T_EqIntFloat, T_EqStr, T_EqLen}

NextEq ==
  \/ OnTextInput(EqTexts)
  \/ OnKeyReturn
  \/ OnKeyCtrlTab
  \/ ExecStep
  \/ ExecuteCodeReturn

SpecEq == Init /\ [][NextEq]_vars

\* values of every variant, arrays of several lengths and depths among them
EqOperands ==
  LET one == IntegerValue(1)
      two == IntegerValue(2)
  IN {one, two, FloatValue(1, 1), FloatValue(3, 2), StringValue(<<"1">>),
      StringValue(<<>>), NilValue, ArrayValue(<<>>), ArrayValue(<<one>>),
      ArrayValue(<<two>>), ArrayValue(<<one, two>>),
      ArrayValue(<<one, ArrayValue(<<two>>)>>),
      ArrayValue(<<one, ArrayValue(<<one>>)>>),
      ArrayValue(<<one, ArrayValue(<<ArrayValue(<<>>)>>)>>),
      ArrayValue(<<one, ArrayValue(<<ArrayValue(<<NilValue>>)>>)>>)}

T_Arr == <<"1", " ", "a", "=", "{", "1", ",", "2", ",", "3", "}">>

\* 2 a[1]=9
T_Set1 == <<"2", " ", "a", "[", "1", "]", "=", "9">>

\* 3 a[3]=9
T_Set3 == <<"3", " ", "a", "[", "3", "]", "=", "9">>

\* 4 a[-1]=9
T_SetNeg == <<"4", " ", "a", "[", "-", "1", "]", "=", "9">>

\* 5 b=a[3]
T_Get3 == <<"5", " ", "b", "=", "a", "[", "3", "]">>

\* 6 b=a[-1]
T_GetNeg == <<"6", " ", "b", "=", "a", "[", "-", "1", "]">>

\* 7 b=a[2]
T_Get2 == <<"7", " ", "b", "=", "a", "[", "2", "]">>

IndexTexts == {T_Arr, T_Set1, T_Set3, T_SetNeg, T_Get3, T_GetNeg, T_Get2}

NextIndex ==
  \/ OnTextInput(IndexTexts)
  \/ OnKeyReturn
  \/ OnKeyCtrlTab
  \/ ExecStep
  \/ ExecuteCodeReturn

SpecIndex == Init /\ [][NextIndex]_vars

\* the array bound to name before the last step
ArrayBefore(name) == last.pre.vars[name].array

\* the last step ran a statement on an array that was bound to name
OnArray(name) ==
  /\ last.op = "step" /\ last.st # "Panic"
  /\ name \in DOMAIN last.pre.vars /\ last.pre.vars[name].t = "Array"

\* C31: with a bound to an array, a step that runs `a[i] = v` or `b = a[i]`
\* with i below 0 or at or above the length returns an error and changes no
\* binding; a write with i in range changes element i alone (same length,
\* same other elements, same other bindings) and a read with i in range
\* binds b to element i.
C31_IndexBounds ==
  /\ (OnArray("a") /\ last.node.k = "IndexSet" /\ last.node.name = "a")
     => LET At(i, v) ==
              IF i.val.num < 0 \/ i.val.num >= Len(ArrayBefore("a"))
              THEN last.st = "Err" /\ basic.vars = last.pre.vars
              ELSE /\ last.st = "Ok"
                   /\ DOMAIN basic.vars = DOMAIN last.pre.vars
                   /\ \A n \in DOMAIN basic.vars \ {"a"} :
                        basic.vars[n] = last.pre.vars[n]
                   /\ basic.vars["a"].t = "Array"
                   /\ Len(basic.vars["a"].array) = Len(ArrayBefore("a"))
                   /\ \A j \in 1..Len(ArrayBefore("a")) :
                        basic.vars["a"].array[j] =
                          IF j = i.val.num + 1 THEN v.val ELSE ArrayBefore("a")[j]
        IN At(CondBefore(last.node.index), CondBefore(last.node.value))
  /\ (OnArray("a") /\ last.node.k = "Assign" /\ last.node.value.k = "IndexGet"
        /\ last.node.value.name = "a")
     => LET At(i) ==
              IF i.val.num < 0 \/ i.val.num >= Len(ArrayBefore("a"))
              THEN last.st = "Err" /\ basic.vars = last.pre.vars
              ELSE /\ last.st = "Ok"
                   /\ basic.vars =
                        VarsInsert(last.pre.vars, last.node.name,
                                   ArrayBefore("a")[i.val.num + 1])
        IN At(CondBefore(last.node.value.index))

\* `4 a[-1]=9` has returned an error after `2 a[1]=9` had written 9 into
\* element 1: the array is still {1,9,3}
C31_Witness ==
  /\ Ran(T_SetNeg) /\ last.st = "Err" /\ OnArray("a")
  /\ basic.vars["a"] =
       ArrayValue(<<IntegerValue(1), IntegerValue(9), IntegerValue(3)>>)

\* `3 a[3]=9` has returned an error on the three-element array
C31_WitnessPastEnd ==
  /\ Ran(T_Set3) /\ last.st = "Err" /\ OnArray("a")
  /\ Len(basic.vars["a"].array) = 3

\* the reads at 3 and at -1 have returned errors, the read at 2 has bound b
C31_WitnessGet ==
  /\ Ran(T_Get3) /\ last.st = "Err" /\ OnArray("a") /\ "b" \notin DOMAIN basic.vars

C31_WitnessGetNeg ==
  /\ Ran(T_GetNeg) /\ last.st = "Err" /\ OnArray("a") /\ "b" \notin DOMAIN basic.vars

C31_WitnessGetInRange ==
  /\ Ran(T_Get2) /\ last.st = "Ok" /\ OnArray("a")
  /\ basic.vars["b"] = IntegerValue(3)

(***************************************************************************)
(* Sessions in which keys are pressed on the exec screen and stored lines  *)
(* read them with inkey$.                                                  *)
(***************************************************************************)
\* 1 a=inkey$()
T_InkeyA == <<"1", " ", "a", "=", "i", "n", "k", "e", "y", "$", "(", ")">>

\* 3 b=inkey$()
T_InkeyB == <<"3", " ", "b", "=", "i", "n", "k", "e", "y", "$", "(", ")">>

\* 4 c=inkey$()
T_InkeyC == <<"4", " ", "c", "=", "i", "n", "k", "e", "y", "$", "(", ")">>

\* the most keys a session presses
MaxKeys == 2

\* Keycode::name of the keys the sessions press
KeyNames == {<<"A">>, <<"B">>}

\* a key goes down while the exec screen is shown, between two batches: its
\* name joins the queue inkey$ reads
OnKeyDown ==
  /\ ~panicked /\ pc = "poll" /\ screen = EXEC_SCREEN
  /\ Len(keys_down) < MaxKeys
  /\ \E key \in KeyNames : keys_down' = Append(keys_down, key)
  /\ last' = [op |-> "key_down"]
  /\ UNCHANGED <<line_cursor, basic, screen, printed_text, current_line, cursor, error, files,
                 keys_idx, pc, panicked>>

KeysTexts == {T_InkeyA, T_Refresh, T_InkeyB, T_InkeyC}

NextKeys ==
  \/ OnTextInput(KeysTexts)
  \/ OnKeyReturn
  \/ OnKeyCtrlTab
  \/ OnKeyDown
  \/ ExecStep
  \/ ExecuteCodeReturn

SpecKeys == Init /\ [][NextKeys]_vars

\* node is `name = inkey$()`
IsInkeyAssign(node) ==
  /\ node.k = "Assign" /\ node.value.k = "BuiltinCommand"
  /\ node.value.name = "inkey$" /\ node.value.args = <<>>

C32_WitnessLate ==
  /\ Ran(T_InkeyB) /\ keys_down = <<<<"A">>>> /\ keys_idx = 1
  /\ DOMAIN basic.vars = {"a", "b"}
  /\ basic.vars["a"] = NilValue
  /\ basic.vars["b"] = StringValue(<<"A">>)

(***************************************************************************)
(* Sessions that store integer divisions and remainders, some by 0, and    *)
(* run them.                                                               *)
(***************************************************************************)
\* 1 a=1/0
T_Div0 == <<"1", " ", "a", "=", "1", "/", "0">>

\* 2 b=1%0
T_Mod0 == <<"2", " ", "b", "=", "1", "%", "0">>

\* 3 c=7/2
T_Div2 == <<"3", " ", "c", "=", "7", "/", "2">>

\* 4 d=7%2
T_Mod2 == <<"4", " ", "d", "=", "7", "%", "2">>

ZerodivTexts == {T_Div0, T_Mod0, T_Div2, T_Mod2}

NextZerodiv ==
  \/ OnTextInput(ZerodivTexts)
  \/ OnKeyReturn
  \/ OnKeyCtrlTab
  \/ ExecStep
  \/ ExecuteCodeReturn

SpecZerodiv == Init /\ [][NextZerodiv]_vars

\* C33: a step that runs an Integer `/` or `%` whose right operand is 0
\* returns an error result and the process goes on.
C33_DivideByZero ==
  (Ran(T_Div0) \/ Ran(T_Mod0)) => last.st = "Err" /\ ~panicked

\* `1 a=1/0` has been run: the step did not return and the process is gone
C33_Witness ==
  /\ Ran(T_Div0) /\ last.st = "Panic" /\ panicked

\* the same for `2 b=1%0`
C33_WitnessPercent ==
  /\ Ran(T_Mod0) /\ last.st = "Panic" /\ panicked

\* with a right operand of 2 the two operators return 3 and 1
C33_WitnessNonZero ==
  /\ Ran(T_Mod2) /\ last.st = "Ok" /\ DOMAIN basic.vars = {"c", "d"}
  /\ basic.vars["c"] = IntegerValue(3) /\ basic.vars["d"] = IntegerValue(1)

(***************************************************************************)
(* Sessions whose runs reach a next on an unbound variable and a loop      *)
(* whose while condition no longer evaluates.                              *)
(***************************************************************************)
\* 1 for i=1 to 1
T_For11 == <<"1", " ", "f", "o", "r", " ", "i", "=", "1", " ", "t", "o", " ", "1">>

\* 5 next j
T_5NextJ == <<"5", " ", "n", "e", "x", "t", " ", "j">>

UnboundTexts == {T_For11, T_WhileI, T_NextI, T_Loop4, T_5NextJ}

NextUnbound ==
  \/ OnTextInput(UnboundTexts)
  \/ OnKeyReturn
  \/ OnKeyCtrlTab
  \/ ExecStep
  \/ ExecuteCodeReturn

SpecUnbound == Init /\ [][NextUnbound]_vars

\* the last step ran `next v` with a frame on the for stack and v unbound
NextOnUnbound ==
  /\ last.op = "step" /\ IsCommand(last.node, "next")
  /\ Len(last.node.args) = 1 /\ last.node.args[1].k = "VarGet"
  /\ Len(last.pre.for_stack) > 0
  /\ last.node.args[1].name \notin DOMAIN last.pre.vars

\* the last step ran `loop` with a `while` at the top frame's origin whose
\* condition, evaluated in the environment before the step, is an error
LoopOnFailingCond ==
  /\ last.op = "step" /\ IsCommand(last.node, "loop")
  /\ Len(last.node.args) = 0 /\ Len(last.pre.while_stack) > 0
  /\ LET line_no == last.pre.while_stack[Len(last.pre.while_stack)] IN
       /\ line_no < Len(basic.program)
       /\ IsCommand(LineAt(basic.program, line_no).node, "while")
       /\ Len(LineAt(basic.program, line_no).node.args) = 1
       /\ CondBefore(LineAt(basic.program, line_no).node.args[1]).st = "Err"

\* C34: a `next v` run while v is unbound, and a `loop` whose re-evaluated
\* while condition fails, return an error result and the process goes on.
C34_ErrorNotAbort ==
  (NextOnUnbound \/ LoopOnFailingCond) => last.st = "Err" /\ ~panicked

\* `1 for i=1 to 1`, `5 next j`: the next found a frame but no j and the
\* process has aborted
C34_Witness ==
  /\ NextOnUnbound /\ Ran(T_5NextJ) /\ last.st = "Panic" /\ panicked

\* `1 for i=1 to 1`, `2 while i`, `3 next i`, `4 loop`: next has removed i,
\* the loop's re-evaluation of `i` failed and the process has aborted
C34_WitnessLoop ==
  /\ LoopOnFailingCond /\ Ran(T_Loop4) /\ last.st = "Panic" /\ panicked
  /\ "i" \notin DOMAIN last.pre.vars

(***************************************************************************)
(* Sessions that switch between the two screens with run state left behind *)
(* by a run or by immediate lines.                                         *)
(***************************************************************************)
\* z=5
T_ImmZ == <<"z", "=", "5">>

\* run_koneko's call of execute_code while the editor is shown: the test
\* `self.screen == EXEC_SCREEN` fails and Ok(()) is returned
ExecuteCodeEditor ==
  /\ ~panicked /\ pc = "poll" /\ screen = BASIC_SCREEN
  /\ last.op # "idle"
  /\ last' = [op |-> "idle"]
  /\ UNCHANGED <<line_cursor, basic, screen, printed_text, current_line, cursor, error, files,
                 keys_down, keys_idx, pc, panicked>>

ScreenTexts == {T_For15, T_2Gosub3, T_While1, T_ImmZ, T_Goto1}

NextScreen ==
  \/ OnTextInput(ScreenTexts)
  \/ OnKeyReturn
  \/ OnKeyCtrlTab
  \/ ExecuteCodeEditor
  \/ ExecStep
  \/ ExecuteCodeReturn

SpecScreen == Init /\ [][NextScreen]_vars

\* the run state reset_program_state leaves
FreshRun ==
  [line_no |-> 0, for_stack |-> <<>>, while_stack |-> <<>>, call_stack |-> <<>>,
   vars |-> EmptyVars]

\* C35: a stored line is executed only on the exec screen; every switch into
\* the exec screen leaves the fresh run state, whatever was there; the first
\* step after the switch runs index 0 in the empty environment with empty
\* stacks; and execute_code on the editor screen changes nothing of the
\* interpreter.
C35_RunsOnExecScreenOnly ==
  /\ [][last'.op \in {"step", "batch_end"}
        => screen = EXEC_SCREEN /\ screen' = EXEC_SCREEN]_vars
  /\ [][(screen = BASIC_SCREEN /\ screen' = EXEC_SCREEN)
        => RunState(basic') = FreshRun]_vars
  /\ [][(last.op = "ctrl_tab" /\ last'.op = "step")
        => last'.idx = 0 /\ last'.pre = FreshRun]_vars
  /\ [][last'.op = "idle" => screen = BASIC_SCREEN /\ basic' = basic]_vars

\* a run has left i, a for frame, a call frame, a while frame and cursor 3;
\* back in the editor `z=5` was entered; the switch into the exec screen
\* has cleared all of it
C35_Witness ==
  /\ last.op = "ctrl_tab" /\ screen = EXEC_SCREEN
  /\ DOMAIN last.pre.vars = {"i", "z"} /\ last.pre.line_no = 3
  /\ Len(last.pre.for_stack) = 1 /\ last.pre.call_stack = <<1>>
  /\ last.pre.while_stack = <<2>>
  /\ RunState(basic) = FreshRun

\* execute_code was called on the editor screen with that run state present
C35_WitnessIdle ==
  /\ last.op = "idle" /\ screen = BASIC_SCREEN
  /\ basic.line_no = 3 /\ Len(basic.for_stack) = 1

\* the first step of a run entered after an immediate `goto 1`
C35_WitnessFirstStep ==
  /\ last.op = "step" /\ last.idx = 0 /\ last.stale /\ last.pre = FreshRun

(***************************************************************************)
(* Sessions that run nested while/loop programs in which the inner         *)
(* condition is falsy when it is first reached.                            *)
(***************************************************************************)
\* 1 i=1
T_Let1 == <<"1", " ", "i", "=", "1">>

\* 3 i=0
T_3Let0 == <<"3", " ", "i", "=", "0">>

\* 4 while i
T_4WhileI == <<"4", " ", "w", "h", "i", "l", "e", " ", "i">>

\* 5 loop
T_5Loop == <<"5", " ", "l", "o", "o", "p">>

NestTexts == {T_Let1, T_WhileI, T_3Let0, T_4WhileI, T_5Loop, T_Loop6}

NextNest ==
  \/ OnTextInput(NestTexts)
  \/ OnKeyReturn
  \/ OnKeyCtrlTab
  \/ ExecStep
  \/ ExecuteCodeReturn

SpecNest == Init /\ [][NextNest]_vars

\* the builtin a stored line runs, "for" for a For node, "" for anything else
Opener(line) ==
  IF line.node.k = "For" THEN "for"
  ELSE IF line.node.k = "BuiltinCommand" THEN line.node.name ELSE ""

RECURSIVE NestScan(_, _, _, _)
\* the lines of program from idx on read as brackets (for/next, while/loop)
\* over the stack of open ones: ok when every closer meets its opener and
\* nothing stays open; deep is the largest number open at once
NestScan(program, idx, open, deep) ==
  IF idx >= Len(program) THEN [ok |-> open = <<>>, deep |-> deep]
  ELSE LET cmd == Opener(LineAt(program, idx))
           top == IF open = <<>> THEN "" ELSE open[Len(open)]
       IN IF cmd \in {"for", "while"}
          THEN NestScan(program, idx + 1, Append(open, cmd),
                        IF Len(open) + 1 > deep THEN Len(open) + 1 ELSE deep)
          ELSE IF cmd \in {"next", "loop"}
          THEN IF top = (IF cmd = "next" THEN "for" ELSE "while")
               THEN NestScan(program, idx + 1, SubSeq(open, 1, Len(open) - 1), deep)
               ELSE [ok |-> FALSE, deep |-> deep]
          ELSE NestScan(program, idx + 1, open, deep)

\* program is well nested and holds no goto, gosub or ret
WellNested(program) ==
  /\ NestScan(program, 0, <<>>, 0).ok
  /\ \A k \in 1..Len(program) : Opener(program[k]) \notin {"goto", "gosub", "ret"}

\* no step of the run so far has returned an error
RunClean ==
  /\ ~panicked
  /\ \A k \in 1..Len(printed_text) : printed_text[k][1] # "Error: "

\* C36: while a well-nested program without goto runs with no error, no stack
\* is deeper than the program's nesting depth; and when that run has reached
\* the end of the program the for, while and call stacks are empty.
C36_StacksBalanced ==
  (screen = EXEC_SCREEN /\ WellNested(basic.program) /\ RunClean)
  => /\ Len(basic.for_stack) <= NestScan(basic.program, 0, <<>>, 0).deep
     /\ Len(basic.while_stack) <= NestScan(basic.program, 0, <<>>, 0).deep
     /\ Len(basic.call_stack) = 0
     /\ basic.line_no >= Len(basic.program)
        => /\ basic.for_stack = <<>>
           /\ basic.while_stack = <<>>

\* `1 i=1`, `2 while i`, `3 i=0`, `4 while i`, `5 loop`, `6 loop` has run to
\* its end with no error and the outer while's frame is still on the stack
C36_Witness ==
  /\ screen = EXEC_SCREEN /\ RunClean
  /\ Contents(basic.program) =
       <<T_Let1, T_WhileI, T_3Let0, T_4WhileI, T_5Loop, T_Loop6>>
  /\ WellNested(basic.program)
  /\ basic.line_no >= Len(basic.program)
  /\ basic.while_stack = <<1>>

\* without the inner pair the run ends with the while stack empty
C36_WitnessBalanced ==
  /\ screen = EXEC_SCREEN /\ RunClean /\ last.op = "batch_end"
  /\ Contents(basic.program) = <<T_Let1, T_WhileI, T_3Let0, T_Loop6>>
  /\ basic.line_no >= Len(basic.program)
  /\ basic.while_stack = <<>>

(***************************************************************************)
(* Sessions that run for loops whose start is at or past their end.        *)
(***************************************************************************)
\* 1 for i=5 to 1
T_For51Up == <<"1", " ", "f", "o", "r", " ", "i", "=", "5", " ", "t", "o", " ", "1">>

OnceTexts == {T_For51Up, T_For11, T_For15, T_For51, T_PrintI, T_NextI}

NextOnce ==
  \/ OnTextInput(OnceTexts)
  \/ OnKeyReturn
  \/ OnKeyCtrlTab
  \/ ExecStep
  \/ ExecuteCodeReturn

SpecOnce == Init /\ [][NextOnce]_vars

\* C37: a step that runs `for` on an unbound name compares nothing: whatever
\* start, end and step are it returns Ok, binds the name to start, pushes one
\* frame and leaves the cursor on the next line, the body; so a program
\* `for`, `print i`, `next i` that has passed its body has printed start
\* first.  The comparison is made by `next`, on the value with the step
\* added: below the end the loop goes on from the line after the for, else
\* the name is removed and the frame popped.
C37_BodyAtLeastOnce ==
  /\ (last.op = "step" /\ last.node.k = "For"
        /\ last.node.name \notin DOMAIN last.pre.vars)
     => /\ last.st = "Ok"
        /\ basic.line_no = last.idx + 1
        /\ last.node.name \in DOMAIN basic.vars
        /\ basic.vars[last.node.name] = CondBefore(last.node.start).val
        /\ Len(basic.for_stack) = Len(last.pre.for_stack) + 1
  /\ (/\ screen = EXEC_SCREEN /\ ~panicked /\ Len(basic.program) = 3
      /\ basic.program[1].node.k = "For"
      /\ SubSeq(Contents(basic.program), 2, 3) = <<T_PrintI, T_NextI>>
      /\ basic.line_no >= 2)
     => /\ Len(printed_text) >= 1
        /\ printed_text[1] = NatToText(basic.program[1].node.start.num)
  /\ (/\ last.op = "step" /\ IsCommand(last.node, "next") /\ last.st = "Ok"
      /\ Len(last.pre.for_stack) > 0)
     => LET frame == last.pre.for_stack[Len(last.pre.for_stack)]
            name == last.node.args[1].name
            stepped == last.pre.vars[name].num + frame.step.num
        IN IF stepped * signum(frame.step.num) < frame.end.num
           THEN /\ basic.vars = VarsInsert(last.pre.vars, name, IntegerValue(stepped))
                /\ basic.line_no = frame.line_no + 1
                /\ basic.for_stack = last.pre.for_stack
           ELSE /\ basic.vars = VarsRemove(last.pre.vars, name)
                /\ basic.line_no = last.idx + 1
                /\ basic.for_stack =
                     SubSeq(last.pre.for_stack, 1, Len(last.pre.for_stack) - 1)

\* `1 for i=5 to 1`, `2 print i`, `3 next i` has run: the body printed 5 once
\* and the first next, comparing 6 with 1, has left the loop
C37_Witness ==
  /\ screen = EXEC_SCREEN /\ ~panicked
  /\ Contents(basic.program) = <<T_For51Up, T_PrintI, T_NextI>>
  /\ Ran(T_NextI) /\ last.st = "Ok"
  /\ printed_text = <<<<"5">>>>
  /\ "i" \notin DOMAIN basic.vars /\ basic.for_stack = <<>>

\* the same with start equal to end
C37_WitnessEqual ==
  /\ screen = EXEC_SCREEN /\ ~panicked
  /\ Contents(basic.program) = <<T_For11, T_PrintI, T_NextI>>
  /\ Ran(T_NextI) /\ last.st = "Ok"
  /\ printed_text = <<<<"1">>>>
  /\ "i" \notin DOMAIN basic.vars

(***************************************************************************)
(* Sessions that store assignments of binary operations on two Integers    *)
(* and run them.                                                           *)
(***************************************************************************)
\* 1 a=1<>2
T_Neq == <<"1", " ", "a", "=", "1", "<", ">", "2">>

\* 2 b=1|0
T_Or == <<"2", " ", "b", "=", "1", "|", "0">>

\* 3 c=1&1
T_And == <<"3", " ", "c", "=", "1", "&", "1">>

\* 4 d=1<=2
T_Lte == <<"4", " ", "d", "=", "1", "<", "=", "2">>

\* 5 e=2*3
T_Mul == <<"5", " ", "e", "=", "2", "*", "3">>

OpsTexts == {T_Neq, T_Or, T_And, T_Lte, T_Mul}

NextOps ==
  \/ OnTextInput(OpsTexts)
  \/ OnKeyReturn
  \/ OnKeyCtrlTab
  \/ ExecStep
  \/ ExecuteCodeReturn

SpecOps == Init /\ [][NextOps]_vars

\* the operators of the parser's levels or, and, cmp, add and mul
ParserOps ==
  {"Pipe", "Ampersand", "Lt", "Gt", "Lte", "Gte", "EqEq", "Neq", "Add", "Sub",
   "Mul", "Div", "Percent"}

\* the Integer operands tried with each operator
OpOperands == {IntegerValue(n) : n \in -2..3}

\* C38: for every binary operator the parser accepts there are two Integer
\* operands for which the interpreter's BinOp returns a value; and the stored
\* assignments of `1<>2`, `1|0`, `1&1`, `1<=2` and `2*3` return Ok when run.
C38_EveryOperatorEvaluates ==
  /\ \A op \in ParserOps :
       \E l \in OpOperands, r \in OpOperands : BinOpApply(op, l, r).st = "Ok"
  /\ \A src \in OpsTexts : Ran(src) => last.st = "Ok"

\* `1 a=1<>2` was parsed as a BinOp with the operator Neq and its step
\* returned an error, binding nothing
C38_Witness ==
  /\ Ran(T_Neq) /\ last.node.k = "Assign" /\ last.node.value.k = "BinOp"
  /\ last.node.value.op = "Neq"
  /\ last.st = "Err" /\ "a" \notin DOMAIN basic.vars

\* the other four operators of the session returned their values
C38_WitnessOthers ==
  /\ Ran(T_Mul) /\ last.st = "Ok" /\ DOMAIN basic.vars = {"b", "c", "d", "e"}
  /\ basic.vars["b"] = IntegerValue(1) /\ basic.vars["c"] = IntegerValue(1)
  /\ basic.vars["d"] = IntegerValue(1) /\ basic.vars["e"] = IntegerValue(6)

(***************************************************************************)
(* The editor's remaining keys, and sessions that edit the input line at   *)
(* any cursor position with one-byte and two-byte characters.              *)
(***************************************************************************)
\* Koneko::on_key, Keycode::Delete in the editor: remove the character at the
\* cursor
OnKeyDelete ==
  /\ ~panicked /\ pc = "poll" /\ screen = BASIC_SCREEN
  /\ cursor < Len(current_line)
  /\ LET Removed(r) ==
           IF r.ok
           THEN current_line' = r.line /\ panicked' = panicked
           ELSE panicked' = TRUE /\ current_line' = current_line
     IN Removed(remove(current_line, cursor))
  /\ last' = [op |-> "delete"]
  /\ UNCHANGED <<basic, screen, printed_text, cursor, line_cursor, error,
                 files, keys_down, keys_idx, pc>>

\* Koneko::on_key, Keycode::Home in the editor
OnKeyHome ==
  /\ ~panicked /\ pc = "poll" /\ screen = BASIC_SCREEN
  /\ cursor' = 0
  /\ last' = [op |-> "home"]
  /\ UNCHANGED <<basic, screen, printed_text, current_line, line_cursor,
                 error, files, keys_down, keys_idx, pc, panicked>>

\* Koneko::on_key, Keycode::Left in the editor
OnKeyLeft ==
  /\ ~panicked /\ pc = "poll" /\ screen = BASIC_SCREEN
  /\ cursor > 0
  /\ cursor' = cursor - 1
  /\ last' = [op |-> "left"]
  /\ UNCHANGED <<basic, screen, printed_text, current_line, line_cursor,
                 error, files, keys_down, keys_idx, pc, panicked>>

\* Koneko::on_key, Keycode::Right in the editor
OnKeyRight ==
  /\ ~panicked /\ pc = "poll" /\ screen = BASIC_SCREEN
  /\ cursor < Len(current_line)
  /\ cursor' = cursor + 1
  /\ last' = [op |-> "right"]
  /\ UNCHANGED <<basic, screen, printed_text, current_line, line_cursor,
                 error, files, keys_down, keys_idx, pc, panicked>>

\* Koneko::on_key, Keycode::Up in the editor: line_cursor -= 1, redraw_screen
OnKeyUp ==
  /\ ~panicked /\ pc = "poll" /\ screen = BASIC_SCREEN
  /\ line_cursor > 0
  /\ line_cursor' = line_cursor - 1
  /\ printed_text' = <<>>
  /\ cursor' = 0
  /\ last' = [op |-> "up"]
  /\ UNCHANGED <<basic, screen, current_line, error, files, keys_down,
                 keys_idx, pc, panicked>>

\* the most Down presses a session makes on an empty store
MaxDown == 2

\* Koneko::on_key, Keycode::Down in the editor: when line_cursor is below
\* program.len() as u32 - 1, line_cursor += 1 and redraw_screen.  On an empty
\* store the subtraction overflows: a build with overflow checks panics, one
\* without wraps to u32::MAX and moves line_cursor.
OnKeyDownArrow ==
  /\ ~panicked /\ pc = "poll" /\ screen = BASIC_SCREEN
  /\ \/ /\ Len(basic.program) = 0
        /\ panicked' = TRUE
        /\ UNCHANGED <<line_cursor, printed_text, cursor>>
     \/ /\ \/ Len(basic.program) = 0 /\ line_cursor < MaxDown
           \/ Len(basic.program) > 0 /\ line_cursor < Len(basic.program) - 1
        /\ line_cursor' = line_cursor + 1
        /\ printed_text' = <<>>
        /\ cursor' = 0
        /\ panicked' = panicked
  /\ last' = [op |-> "down"]
  /\ UNCHANGED <<basic, screen, current_line, error, files, keys_down,
                 keys_idx, pc>>

\* Koneko::on_key, Keycode::Tab without Ctrl: an empty input line takes the
\* text of the stored line at line_cursor, the cursor goes to its end
OnKeyTab ==
  /\ ~panicked /\ pc = "poll"
  /\ current_line = <<>> /\ line_cursor < Len(basic.program)
  /\ current_line' = LineAt(basic.program, line_cursor).contents
  /\ cursor' = Len(current_line')
  /\ last' = [op |-> "tab"]
  /\ UNCHANGED <<basic, screen, printed_text, line_cursor, error, files,
                 keys_down, keys_idx, pc, panicked>>

\* the longest input line of these sessions, in bytes
MaxLine == 3

\* e-acute, the two bytes C3 A9
T_EAcute == <<"C3", "A9">>

CursorTexts == {T_1A, T_Bare1, T_EAcute}

\* Koneko::on_text_input at any cursor position
OnTextInputAt(menu) ==
  \E text \in menu :
    /\ Len(current_line) + Len(text) <= MaxLine
    /\ on_text_input(text)

NextCursor ==
  \/ OnTextInputAt(CursorTexts)
  \/ OnKeyReturn
  \/ OnKeyBackspace
  \/ OnKeyDelete
  \/ OnKeyHome
  \/ OnKeyEnd
  \/ OnKeyLeft
  \/ OnKeyRight
  \/ OnKeyUp
  \/ OnKeyDownArrow
  \/ OnKeyTab

SpecCursor == Init /\ [][NextCursor]_vars

\* C39: after every sequence of editor events the cursor is between 0 and the
\* length of the input line, and Backspace, Delete and text insertion act on
\* the line at a valid position: none of them aborts.
C39_CursorValid ==
  /\ 0 <= cursor /\ cursor <= Len(current_line)
  /\ last.op \in {"backspace", "delete", "text_input"} => ~panicked

\* e-acute was typed and Backspace pressed: the cursor, 2, is within the
\* line's two bytes, the byte before it is not the start of a character and
\* the removal has aborted
C39_Witness ==
  /\ last.op = "backspace" /\ panicked
  /\ current_line = T_EAcute /\ cursor = 2

\* e-acute, Left, then text input: the cursor, 1, is inside the character
\* and the insertion has aborted
C39_WitnessInsert ==
  /\ last.op = "text_input" /\ panicked
  /\ current_line = T_EAcute /\ cursor = 1

\* e-acute, Left, Delete: the same for the removal at the cursor
C39_WitnessDelete ==
  /\ last.op = "delete" /\ panicked
  /\ current_line = T_EAcute /\ cursor = 1

\* Tab has fetched the stored line `1 a` into the empty input line
C39_WitnessTab ==
  /\ last.op = "tab" /\ current_line = T_1A /\ cursor = 3

(***************************************************************************)
(* Sessions that print more lines than the text screen holds.              *)
(***************************************************************************)
\* 1 for i=1 to 30
T_For130 == <<"1", " ", "f", "o", "r", " ", "i", "=", "1", " ", "t", "o", " ", "3", "0">>

ScrollTexts == {T_For130, T_PrintI, T_NextI}

NextScroll ==
  \/ OnTextInput(ScrollTexts)
  \/ OnKeyReturn
  \/ OnKeyCtrlTab
  \/ ExecStep
  \/ ExecuteCodeReturn

SpecScroll == Init /\ [][NextScroll]_vars

\* the buffer after one print of some text onto the buffer before: appended
\* below TEXT_HEIGHT lines, else the first line dropped, the others moved up
\* in order and the text put last
Printed(before, after) ==
  /\ Len(after) >= 1
  /\ IF Len(before) < TEXT_HEIGHT
     THEN /\ Len(after) = Len(before) + 1
          /\ SubSeq(after, 1, Len(before)) = before
     ELSE /\ Len(after) = TEXT_HEIGHT
          /\ SubSeq(after, 1, TEXT_HEIGHT - 1) = Tail(before)

\* C40: the printed-text buffer never holds more than TEXT_HEIGHT lines; a
\* step of the run leaves it alone or prints one text onto it (appending
\* while there is room, and once it is full dropping the oldest line and
\* putting the new one last, the lines between keeping their order); `print
\* i` puts the value of i last; every other event leaves it alone or, by a
\* redraw, empties it.
C40_PrintBuffer ==
  /\ [](Len(printed_text) <= TEXT_HEIGHT)
  /\ [][/\ last'.op = "step"
           => \/ printed_text' = printed_text
              \/ Printed(printed_text, printed_text')
        /\ (/\ last'.op = "step" /\ last'.st = "Ok" /\ last'.node.k = "BuiltinCommand"
            /\ last'.node.name = "print")
           => /\ Printed(printed_text, printed_text')
              /\ "i" \in DOMAIN basic.vars
              /\ printed_text'[Len(printed_text')] = IntToText(basic.vars["i"].num)
        /\ (last'.op = "step" /\ last'.st = "Err")
           => Printed(printed_text, printed_text')
        /\ last'.op # "step"
           => printed_text' \in {printed_text, <<>>}]_vars

\* the loop has printed 1 to 29 (its last pass, see C6) onto a screen of
\* TEXT_HEIGHT lines: the buffer is full and holds 5 to 29 in order
C40_Witness ==
  /\ Contents(basic.program) = <<T_For130, T_PrintI, T_NextI>>
  /\ screen = EXEC_SCREEN /\ basic.line_no >= Len(basic.program)
  /\ Len(printed_text) = TEXT_HEIGHT
  /\ \A k \in 1..TEXT_HEIGHT : printed_text[k] = NatToText(k + 4)

\* the buffer exactly full, before any line is dropped
C40_WitnessFull ==
  /\ Contents(basic.program) = <<T_For130, T_PrintI, T_NextI>>
  /\ last.op = "step" /\ last.idx = 1
  /\ Len(printed_text) = TEXT_HEIGHT
  /\ \A k \in 1..TEXT_HEIGHT : printed_text[k] = NatToText(k)

\* an error message printed by the run
C40_WitnessError ==
  /\ last.op = "step" /\ last.st = "Err"
  /\ Len(printed_text) >= 1
  /\ printed_text[Len(printed_text)][1] = "Error: "
====
